---------------------------- MODULE Spec2Model ----------------------------
(***************************************************************************)
(* A model of scripts/data_collection/collect_metrics.py: the metrics      *)
(* normalisation pipeline (exposition parser, counter-to-gauge converter,  *)
(* aggregation, pull collectors) and the per-node CSV writer.              *)
(*                                                                         *)
(* Text is modelled character by character on TLA+ strings (Len, SubSeq    *)
(* and \o act on strings in TLC).  A Python dict is an insertion-ordered   *)
(* sequence of <<key, value>> pairs with unique keys.  A Python float is   *)
(* an exact rational [n |-> numerator, d |-> denominator > 0] in lowest    *)
(* terms: rounding is not modelled.                                        *)
(***************************************************************************)
EXTENDS Integers, Sequences, FiniteSets, TLC

VARIABLES
    previous_values,  \* CounterToGaugeConverter._previous_values
    calls,            \* log of the convert() calls made so far (history)
    text,             \* the blob handed to _parse_prometheus_metrics
    metrics,          \* what _parse_prometheus_metrics returned
    pc,               \* position of the parse run: "start", "done", "raised"
    now,              \* the wall clock read by time.time()
    last,             \* the last pull collection: its inputs and its result
    lastOk,           \* the last successful collection of each source (history)
    raised,           \* an exception left a collect_* call
    files,            \* DataWriter._files: the nodes whose file is open
    headers_written,  \* DataWriter._headers_written
    fieldnames,       \* the fieldnames of each node's csv.DictWriter
    csv,              \* the lines written to each node's file, header first
    lastWrite,        \* the last write_sample call (history)
    tz,               \* the local time zone: <<>> for UTC, <<t>> when its clocks go back an hour at t
    latest_srsran_metrics,  \* MetricsCollector._latest_srsran_metrics
    srsran_lock,      \* the holder of MetricsCollector._srsran_lock, or "free"
    listener,         \* each WebSocket thread's position in its message handler
    getter,           \* the main thread's position in get_srsran_metrics
    pushLog,          \* what the handlers and the reads did (history)
    mpc,              \* the main thread's position in main()
    stop_event,       \* the threading.Event of main() that the signal handler sets
    collector_stop_event,  \* MetricsCollector._stop_event
    ws_connections,   \* the state of each node's WebSocketApp and of its thread
    args,             \* the command line: duration, interval, collect_node_exporter
    loop,             \* the locals of main(): start_time, loop_start, sample_count, ...
    closed_files,     \* the nodes whose file DataWriter.close has closed
    tickLog,          \* what the ticks did (history)
    call,             \* a function applied on its own: its arguments and its result
    stress            \* generate_stress.py: the scenario, the applicator and the tracker

vars == <<previous_values, calls, text, metrics, pc, now, last, lastOk, raised,
          files, headers_written, fieldnames, csv, lastWrite, tz,
          latest_srsran_metrics, srsran_lock, listener, getter, pushLog,
          mpc, stop_event, collector_stop_event, ws_connections, args, loop,
          closed_files, tickLog, call, stress>>
convVars == <<calls>>
parseVars == <<text, metrics, pc>>
collectVars == <<now, last, lastOk, raised>>
writerVars == <<files, headers_written, fieldnames, csv, lastWrite, tz>>
pushVars == <<latest_srsran_metrics, srsran_lock, listener, getter, pushLog>>
mainVars == <<mpc, stop_event, collector_stop_event, ws_connections, args, loop,
              closed_files, tickLog>>
toolVars == <<call, stress>>

(***************************************************************************)
(* Bounds of the model.                                                    *)
(***************************************************************************)
MaxCalls == 3
MaxValue == 2
MaxTs == 2
MaxLines == 2
MaxDt == 2
MaxTime == 3
MaxWrites == 3
MaxMessages == 2
MaxTicks == 1
MaxDuration == 1
MaxFetch == 1
MaxPushed == 1
MaxGroup == 3
MaxStat == 3
MaxSlices == 3
MaxLevel == 2
MaxRun == 3
MaxInterval == 2

(***************************************************************************)
(* Python's None.                                                          *)
(***************************************************************************)
None == [none |-> TRUE]

(***************************************************************************)
(* Floats as exact rationals.                                              *)
(***************************************************************************)
Abs(i) == IF i < 0 THEN -i ELSE i

RECURSIVE Gcd(_, _)
Gcd(a, b) == IF b = 0 THEN a ELSE Gcd(b, a % b)

Rat(num, den) ==
    LET g == Gcd(Abs(num), Abs(den))
        s == IF den < 0 THEN -1 ELSE 1
    IN  [n |-> (s * num) \div g, d |-> (s * den) \div g]

Num(i) == [n |-> i, d |-> 1]
RAdd(a, b) == Rat(a.n * b.d + b.n * a.d, a.d * b.d)
RSub(a, b) == Rat(a.n * b.d - b.n * a.d, a.d * b.d)
RMul(a, b) == Rat(a.n * b.n, a.d * b.d)
RDiv(a, b) == Rat(a.n * b.d, a.d * b.n)
RLt(a, b) == a.n * b.d < b.n * a.d
RLe(a, b) == a.n * b.d <= b.n * a.d

(***************************************************************************)
(* Python dicts: insertion-ordered sequences of <<key, value>> pairs.      *)
(***************************************************************************)
DictKeys(d) == {d[i][1] : i \in DOMAIN d}
DictHas(d, k) == \E i \in DOMAIN d : d[i][1] = k
DictGet(d, k) == d[CHOOSE i \in DOMAIN d : d[i][1] = k][2]
DictSet(d, k, v) ==
    IF DictHas(d, k)
    THEN [i \in DOMAIN d |-> IF d[i][1] = k THEN <<k, v>> ELSE d[i]]
    ELSE Append(d, <<k, v>>)

RECURSIVE DictUpdate(_, _)
DictUpdate(d, e) ==
    IF e = <<>> THEN d
    ELSE DictUpdate(DictSet(d, e[1][1], e[1][2]), Tail(e))

(***************************************************************************)
(* Python string methods, character by character.                          *)
(***************************************************************************)
Ch(s, i) == SubSeq(s, i, i)
From(s, i) == SubSeq(s, i, Len(s))
Whitespace == {" ", "\t", "\r", "\n", "\f"}

RECURSIVE FindFrom(_, _, _)
FindFrom(s, c, i) ==
    IF i > Len(s) THEN 0
    ELSE IF Ch(s, i) = c THEN i ELSE FindFrom(s, c, i + 1)

\* The index of the first c in s, 0 when there is none.
Find(s, c) == FindFrom(s, c, 1)
Contains(s, c) == Find(s, c) # 0

RECURSIVE RFindFrom(_, _, _)
RFindFrom(s, c, i) ==
    IF i < 1 THEN 0
    ELSE IF Ch(s, i) = c THEN i ELSE RFindFrom(s, c, i - 1)

RECURSIVE LStripSet(_, _)
LStripSet(s, cs) ==
    IF Len(s) > 0 /\ Ch(s, 1) \in cs THEN LStripSet(From(s, 2), cs) ELSE s

RECURSIVE RStripSet(_, _)
RStripSet(s, cs) ==
    IF Len(s) > 0 /\ Ch(s, Len(s)) \in cs
    THEN RStripSet(SubSeq(s, 1, Len(s) - 1), cs) ELSE s

\* s.strip(), s.strip(c), s.rstrip(c)
Strip(s) == RStripSet(LStripSet(s, Whitespace), Whitespace)
StripCh(s, c) == RStripSet(LStripSet(s, {c}), {c})
RStripCh(s, c) == RStripSet(s, {c})

\* s.split(c)
RECURSIVE Split(_, _)
Split(s, c) ==
    LET i == Find(s, c)
    IN  IF i = 0 THEN <<s>>
        ELSE <<SubSeq(s, 1, i - 1)>> \o Split(From(s, i + 1), c)

\* s.split(c, 1)
Split1(s, c) ==
    LET i == Find(s, c)
    IN  IF i = 0 THEN <<s>> ELSE <<SubSeq(s, 1, i - 1), From(s, i + 1)>>

\* s.rsplit(c, 1)
RSplit1(s, c) ==
    LET i == RFindFrom(s, c, Len(s))
    IN  IF i = 0 THEN <<s>> ELSE <<SubSeq(s, 1, i - 1), From(s, i + 1)>>

RECURSIVE FindWsFrom(_, _)
FindWsFrom(s, i) ==
    IF i > Len(s) THEN Len(s) + 1
    ELSE IF Ch(s, i) \in Whitespace THEN i ELSE FindWsFrom(s, i + 1)

\* s.split(): the words between runs of whitespace
RECURSIVE SplitWs(_)
SplitWs(s) ==
    LET t == LStripSet(s, Whitespace)
    IN  IF t = "" THEN <<>>
        ELSE LET j == FindWsFrom(t, 1)
             IN  <<SubSeq(t, 1, j - 1)>> \o SplitWs(From(t, j))

\* s.startswith(p)
StartsWith(s, p) == Len(p) <= Len(s) /\ SubSeq(s, 1, Len(p)) = p

RECURSIVE Join(_, _)
Join(parts, sep) ==
    IF parts = <<>> THEN ""
    ELSE IF Len(parts) = 1 THEN parts[1]
    ELSE parts[1] \o sep \o Join(Tail(parts), sep)

(***************************************************************************)
(* float(s) on the literals the model feeds it: an optional sign, digits   *)
(* and at most one decimal point.  Exponents, underscores, inf and nan     *)
(* occur in no input of the model.  The result is the number, or the       *)
(* exception raised.                                                       *)
(***************************************************************************)
Digits == "0123456789"
IsDigit(c) == Contains(Digits, c)
DigitVal(c) == Find(Digits, c) - 1

RECURSIVE AllDigits(_)
AllDigits(s) == s = "" \/ (IsDigit(Ch(s, 1)) /\ AllDigits(From(s, 2)))

RECURSIVE DigitsValue(_, _)
DigitsValue(s, acc) ==
    IF s = "" THEN acc
    ELSE DigitsValue(From(s, 2), 10 * acc + DigitVal(Ch(s, 1)))

RECURSIVE Pow10(_)
Pow10(k) == IF k = 0 THEN 1 ELSE 10 * Pow10(k - 1)

ValueError == [exc |-> "ValueError"]

\* The digits before and after the decimal point, as a number.
FloatValue(neg, int, frac) ==
    IF AllDigits(int) /\ AllDigits(frac) /\ Len(int) + Len(frac) > 0
    THEN Rat((IF neg THEN -1 ELSE 1) * DigitsValue(int \o frac, 0), Pow10(Len(frac)))
    ELSE ValueError

FloatParts(neg, p) == FloatValue(neg, p[1], IF Len(p) = 2 THEN p[2] ELSE "")

FloatStripped(s) ==
    FloatParts(Len(s) > 0 /\ Ch(s, 1) = "-",
               Split1(IF Len(s) > 0 /\ Ch(s, 1) \in {"+", "-"} THEN From(s, 2) ELSE s,
                      "."))

float(str) == FloatStripped(Strip(str))

(***************************************************************************)
(* str(labels) of a dict of strings, as the f-string of the metric key     *)
(* renders it: {'k': 'v', ...}.  No input of the model holds a quote ' or  *)
(* a backslash, so repr() of a string is the string between two quotes.    *)
(***************************************************************************)
ReprStr(s) == "'" \o s \o "'"

RECURSIVE ReprItems(_)
ReprItems(d) ==
    IF d = <<>> THEN ""
    ELSE ReprStr(d[1][1]) \o ": " \o ReprStr(d[1][2])
         \o (IF Len(d) > 1 THEN ", " ELSE "") \o ReprItems(Tail(d))

ReprDict(d) == "{" \o ReprItems(d) \o "}"

(***************************************************************************)
(* MetricsCollector._parse_prometheus_metrics.                             *)
(***************************************************************************)
\* The labels dict built from the pieces of labels_str.split(",").
RECURSIVE ParseLabels(_, _)
ParseLabels(pieces, labels) ==
    IF pieces = <<>> THEN labels
    ELSE LET label == pieces[1]
         IN  IF Contains(label, "=")
             THEN LET kv == Split1(label, "=")
                  IN  ParseLabels(Tail(pieces),
                          DictSet(labels, Strip(kv[1]), StripCh(Strip(kv[2]), "\"")))
             ELSE ParseLabels(Tail(pieces), labels)

\* The entry stored under key once float(value) has returned v, or the
\* exception float raised.
MakeEntry(key, name, labels, v) ==
    IF v = ValueError THEN ValueError
    ELSE [exc |-> "", key |-> key, name |-> name, labels |-> labels, value |-> v]

\* name, labels_str = name_labels.split("{", 1) and what follows it.
ParseNameLabels(nl, name_labels, value, labels) ==
    MakeEntry(nl[1] \o "_" \o ReprDict(labels), Split(name_labels, "{")[1],
              labels, float(value))

\* name_labels, value = line.rsplit(" ", 1) and what follows it.
ParseLabelled(parts) ==
    IF Len(parts) # 2 THEN ValueError            \* too few values to unpack
    ELSE IF ~Contains(parts[1], "{") THEN ValueError   \* too few values to unpack
    ELSE ParseNameLabels(Split1(parts[1], "{"), parts[1], parts[2],
             ParseLabels(Split(RStripCh(Split1(parts[1], "{")[2], "}"), ","), <<>>))

\* parts = line.split() and what follows it.
ParsePlain(parts) ==
    IF Len(parts) >= 2
    THEN MakeEntry(parts[1], parts[1], <<>>, float(parts[2]))
    ELSE [exc |-> "continue"]

\* The body of the try block for one stripped line: the entry stored under
\* key, "continue" (the line has fewer than two words), or the exception.
ParseLine(line) ==
    IF Contains(line, "{")
    THEN ParseLabelled(RSplit1(line, " "))
    ELSE ParsePlain(SplitWs(line))

\* The exceptions the except clause of the line loop catches.
ParseCaught == {"ValueError", "IndexError"}

RECURSIVE ParseLines(_, _)

\* What the loop does with the outcome r of one line's try block.
ParseOutcome(r, rest, acc) ==
    IF r.exc = ""
    THEN ParseLines(rest, DictSet(acc, r.key,
                        [name |-> r.name, labels |-> r.labels, value |-> r.value]))
    ELSE IF r.exc = "continue" \/ r.exc \in ParseCaught
    THEN ParseLines(rest, acc)
    ELSE [raised |-> TRUE, metrics |-> acc]

ParseStripped(line, rest, acc) ==
    IF line = "" \/ StartsWith(line, "#")
    THEN ParseLines(rest, acc)
    ELSE ParseOutcome(ParseLine(line), rest, acc)

ParseLines(lines, acc) ==
    IF lines = <<>> THEN [raised |-> FALSE, metrics |-> acc]
    ELSE ParseStripped(Strip(lines[1]), Tail(lines), acc)

\* raised: an exception left the function; metrics: the dict returned.
parse_prometheus_metrics(blob) == ParseLines(Split(blob, "\n"), <<>>)

(***************************************************************************)
(* CounterToGaugeConverter.convert: the rate since the stored observation  *)
(* of the key, or None; ret is the value returned, state the dict after    *)
(* the call.                                                               *)
(***************************************************************************)
ConvertStoresOnlyOnFirst(prev, metric_name, value, timestamp) ==
    IF DictHas(prev, metric_name)
    THEN LET p == DictGet(prev, metric_name)
             time_delta == RSub(timestamp, p[2])
         IN  IF RLt(Num(0), time_delta)
             THEN [ret |-> RDiv(RSub(value, p[1]), time_delta), state |-> prev]
             ELSE [ret |-> None, state |-> prev]
    ELSE [ret |-> None, state |-> DictSet(prev, metric_name, <<value, timestamp>>)]

ConvertFirstIsZero(prev, metric_name, value, timestamp) ==
    IF DictHas(prev, metric_name) /\ RLt(DictGet(prev, metric_name)[2], timestamp)
    THEN [ret |-> RDiv(RSub(value, DictGet(prev, metric_name)[1]),
                       RSub(timestamp, DictGet(prev, metric_name)[2])),
          state |-> DictSet(prev, metric_name, <<value, timestamp>>)]
    ELSE [ret |-> Num(0), state |-> DictSet(prev, metric_name, <<value, timestamp>>)]

ConvertDropsResets(prev, metric_name, value, timestamp) ==
    IF /\ DictHas(prev, metric_name)
       /\ RLt(DictGet(prev, metric_name)[2], timestamp)
       /\ RLe(DictGet(prev, metric_name)[1], value)
    THEN [ret |-> RDiv(RSub(value, DictGet(prev, metric_name)[1]),
                       RSub(timestamp, DictGet(prev, metric_name)[2])),
          state |-> DictSet(prev, metric_name, <<value, timestamp>>)]
    ELSE [ret |-> None, state |-> DictSet(prev, metric_name, <<value, timestamp>>)]

convert(prev, metric_name, value, timestamp) ==
    LET stored == DictSet(prev, metric_name, <<value, timestamp>>)
    IN  IF DictHas(prev, metric_name)
        THEN LET p == DictGet(prev, metric_name)
                 prev_value == p[1]
                 prev_timestamp == p[2]
                 time_delta == RSub(timestamp, prev_timestamp)
             IN  IF RLt(Num(0), time_delta)
                 THEN [ret |-> RDiv(RSub(value, prev_value), time_delta),
                       state |-> stored]
                 ELSE [ret |-> None, state |-> stored]
        ELSE [ret |-> None, state |-> stored]

(***************************************************************************)
(* calculate_stats.  math.sqrt of a rational is its exact root when it has *)
(* a rational one and the symbolic root [sqrt |-> q] otherwise.            *)
(***************************************************************************)
RECURSIVE RSum(_)
RSum(values) == IF values = <<>> THEN Num(0) ELSE RAdd(values[1], RSum(Tail(values)))

RECURSIVE RMin(_)
RMin(values) ==
    IF Len(values) = 1 THEN values[1]
    ELSE LET m == RMin(Tail(values)) IN IF RLt(m, values[1]) THEN m ELSE values[1]

RECURSIVE RMax(_)
RMax(values) ==
    IF Len(values) = 1 THEN values[1]
    ELSE LET m == RMax(Tail(values)) IN IF RLt(values[1], m) THEN m ELSE values[1]

IsSquare(i) == \E r \in 0..i : r * r = i
IntSqrt(i) == CHOOSE r \in 0..i : r * r = i
sqrt(q) ==
    IF IsSquare(q.n) /\ IsSquare(q.d)
    THEN Rat(IntSqrt(q.n), IntSqrt(q.d))
    ELSE [sqrt |-> q]

calculate_stats(values) ==
    IF values = <<>> THEN <<>>
    ELSE LET n == Len(values)
             avg == RDiv(RSum(values), Num(n))
             sq == [i \in DOMAIN values |->
                       RMul(RSub(values[i], avg), RSub(values[i], avg))]
             stddev == IF n > 1 THEN sqrt(RDiv(RSum(sq), Num(n - 1))) ELSE Num(0)
         IN  << <<"avg", avg>>, <<"min", RMin(values)>>,
                <<"max", RMax(values)>>, <<"stddev", stddev>> >>

(***************************************************************************)
(* Python's float is IEEE 754 binary64: every operation returns the exact  *)
(* result rounded to 53 significant bits, ties to even.  A float is        *)
(* s * m * 2^e with the sign s, the natural number m of exactly 53 bits    *)
(* (or 0) and the exponent e; a natural number is the sequence of its      *)
(* digits in base 2^14, lowest first, without leading zeros.  The values   *)
(* of the model stay far from the largest and the smallest exponent, so    *)
(* neither overflow nor subnormal numbers occur.                           *)
(***************************************************************************)
Precision == 53
BaseBits == 14
Base == 2^BaseBits

RECURSIVE BTrim(_)
BTrim(a) ==
    IF a = <<>> \/ a[Len(a)] # 0 THEN a ELSE BTrim(SubSeq(a, 1, Len(a) - 1))

RECURSIVE BigOf(_)
BigOf(i) == IF i = 0 THEN <<>> ELSE <<i % Base>> \o BigOf(i \div Base)

Limb(a, i) == IF i <= Len(a) THEN a[i] ELSE 0

RECURSIVE BAddFrom(_, _, _, _)
BAddFrom(a, b, i, carry) ==
    IF i > Len(a) /\ i > Len(b) THEN (IF carry = 0 THEN <<>> ELSE <<carry>>)
    ELSE <<(Limb(a, i) + Limb(b, i) + carry) % Base>> \o
         BAddFrom(a, b, i + 1, (Limb(a, i) + Limb(b, i) + carry) \div Base)
BAdd(a, b) == BAddFrom(a, b, 1, 0)

\* a - b for a >= b
RECURSIVE BSubFrom(_, _, _, _)
BSubFrom(a, b, i, borrow) ==
    IF i > Len(a) THEN <<>>
    ELSE <<(a[i] - Limb(b, i) - borrow + Base) % Base>> \o
         BSubFrom(a, b, i + 1, IF a[i] - Limb(b, i) - borrow < 0 THEN 1 ELSE 0)
BSub(a, b) == BTrim(BSubFrom(a, b, 1, 0))

RECURSIVE BLessFrom(_, _, _)
BLessFrom(a, b, i) ==
    IF i = 0 THEN FALSE
    ELSE IF a[i] # b[i] THEN a[i] < b[i] ELSE BLessFrom(a, b, i - 1)
BLess(a, b) == IF Len(a) # Len(b) THEN Len(a) < Len(b) ELSE BLessFrom(a, b, Len(a))

\* a * k for a digit k
RECURSIVE BMulSmallFrom(_, _, _, _)
BMulSmallFrom(a, k, i, carry) ==
    IF i > Len(a) THEN (IF carry = 0 THEN <<>> ELSE <<carry>>)
    ELSE <<(a[i] * k + carry) % Base>> \o
         BMulSmallFrom(a, k, i + 1, (a[i] * k + carry) \div Base)
BMulSmall(a, k) == IF k = 0 THEN <<>> ELSE BMulSmallFrom(a, k, 1, 0)

BShiftLimbs(a, j) == IF a = <<>> THEN <<>> ELSE [i \in 1..j |-> 0] \o a

RECURSIVE BMulFrom(_, _, _)
BMulFrom(a, b, i) ==
    IF i > Len(b) THEN <<>>
    ELSE BAdd(BShiftLimbs(BMulSmall(a, b[i]), i - 1), BMulFrom(a, b, i + 1))
BMul(a, b) == BMulFrom(a, b, 1)

\* a divided by a small k: the quotient q and the remainder r
RECURSIVE BDivRem(_, _, _)
BDivRem(a, k, i) ==
    IF i > Len(a) THEN 0 ELSE (BDivRem(a, k, i + 1) * Base + a[i]) % k
RECURSIVE BDivFrom(_, _, _)
BDivFrom(a, k, i) ==
    IF i > Len(a) THEN <<>>
    ELSE <<(BDivRem(a, k, i + 1) * Base + a[i]) \div k>> \o BDivFrom(a, k, i + 1)
BDivSmall(a, k) == [q |-> BTrim(BDivFrom(a, k, 1)), r |-> BDivRem(a, k, 1)]

\* a * 2^n, and a \div 2^n with sticky telling that bits were cut off
BShl(a, n) == BShiftLimbs(BMulSmall(a, 2^(n % BaseBits)), n \div BaseBits)
BLowZero(a, j) == \A i \in 1..j : Limb(a, i) = 0
BDropLimbs(a, j) == IF j >= Len(a) THEN <<>> ELSE SubSeq(a, j + 1, Len(a))
BShr(a, n) ==
    [q |-> BDivSmall(BDropLimbs(a, n \div BaseBits), 2^(n % BaseBits)).q,
     sticky |-> \/ ~BLowZero(a, n \div BaseBits)
                \/ BDivSmall(BDropLimbs(a, n \div BaseBits), 2^(n % BaseBits)).r # 0]

RECURSIVE SmallBitLen(_)
SmallBitLen(i) == IF i = 0 THEN 0 ELSE 1 + SmallBitLen(i \div 2)
BBitLen(a) == IF a = <<>> THEN 0 ELSE BaseBits * (Len(a) - 1) + SmallBitLen(a[Len(a)])

F64(s, m, e) == [s |-> s, m |-> m, e |-> e]
FZero == F64(1, <<>>, 0)

\* q carries one bit more than a float holds: round it off, ties to even.
RoundedUp(s, m, e) ==
    IF BBitLen(m) > Precision THEN F64(s, BDivSmall(m, 2).q, e + 1) ELSE F64(s, m, e)
Rounded(s, q, e, sticky) ==
    IF BDivSmall(q, 2).r = 1 /\ (sticky \/ Limb(BDivSmall(q, 2).q, 1) % 2 = 1)
    THEN RoundedUp(s, BAdd(BDivSmall(q, 2).q, <<1>>), e + 1)
    ELSE F64(s, BDivSmall(q, 2).q, e + 1)

\* The float nearest to s * (m + f) * 2^e, where 0 <= f < 1 and sticky tells
\* that f > 0 (m then has more bits than a float holds).
RoundBits(s, m, e, sticky, bits) ==
    IF bits = 0 THEN FZero
    ELSE IF bits <= Precision
    THEN F64(s, BShl(m, Precision - bits), e - (Precision - bits))
    ELSE Rounded(s, BShr(m, bits - Precision - 1).q, e + (bits - Precision - 1),
                 sticky \/ BShr(m, bits - Precision - 1).sticky)
Round(s, m, e, sticky) == RoundBits(s, m, e, sticky, BBitLen(m))

\* x + y as a real number
ExactSumAt(x, y, a, b, e) ==
    IF x.s = y.s THEN F64(x.s, BAdd(a, b), e)
    ELSE IF BLess(a, b) THEN F64(y.s, BSub(b, a), e)
    ELSE F64(x.s, BSub(a, b), e)
ExactSumTo(x, y, e) == ExactSumAt(x, y, BShl(x.m, x.e - e), BShl(y.m, y.e - e), e)
ExactSum(x, y) == ExactSumTo(x, y, IF x.e < y.e THEN x.e ELSE y.e)
ExactMul(x, y) == F64(x.s * y.s, BMul(x.m, y.m), x.e + y.e)
RoundExact(z) == Round(z.s, z.m, z.e, FALSE)

FNeg(x) == F64(-x.s, x.m, x.e)
FAdd(x, y) == RoundExact(ExactSum(x, y))
FSub(x, y) == FAdd(x, FNeg(y))
FMul(x, y) == RoundExact(ExactMul(x, y))
FEq(x, y) == ExactSum(y, FNeg(x)).m = <<>>
FLe(x, y) == ExactSum(y, FNeg(x)).m = <<>> \/ ExactSum(y, FNeg(x)).s = 1

\* float(i) of a small int i, and x / float(k) for a small int k >= 1
FromInt(i) == Round(IF i < 0 THEN -1 ELSE 1, BigOf(Abs(i)), 0, FALSE)
DivGuard == 2 * BaseBits
FDivQuot(x, d) == Round(x.s, d.q, x.e - DivGuard, d.r # 0)
FDivInt(x, k) == FDivQuot(x, BDivSmall(BShl(x.m, DivGuard), k))

\* the largest r from the bit b down with (r0 + r)^2 <= m
RECURSIVE ISqrtFrom(_, _, _)
ISqrtFrom(m, r, b) ==
    IF b < 0 THEN r
    ELSE IF BLess(m, BMul(BAdd(r, BShl(<<1>>, b)), BAdd(r, BShl(<<1>>, b))))
    THEN ISqrtFrom(m, r, b - 1)
    ELSE ISqrtFrom(m, BAdd(r, BShl(<<1>>, b)), b - 1)

\* math.sqrt(x) for x >= 0
FSqrtOf(m, r, e) == Round(1, r, e, BMul(r, r) # m)
FSqrtAt(x, t) ==
    FSqrtOf(BShl(x.m, t), ISqrtFrom(BShl(x.m, t), <<>>, Precision + 2), (x.e - t) \div 2)
FSqrt(x) ==
    IF x.m = <<>> THEN FZero
    ELSE FSqrtAt(x, IF (x.e - (Precision + 3)) % 2 = 0 THEN Precision + 3 ELSE Precision + 4)

(***************************************************************************)
(* calculate_stats in the arithmetic of float.  calculate_stats above is   *)
(* the same function on the rationals: the two agree wherever no operation *)
(* rounds.                                                                 *)
(***************************************************************************)
\* sum(...): the additions from left to right
RECURSIVE FSum(_, _)
FSum(values, acc) ==
    IF values = <<>> THEN acc ELSE FSum(Tail(values), FAdd(acc, values[1]))

RECURSIVE FMin(_)
FMin(values) ==
    IF Len(values) = 1 THEN values[1]
    ELSE IF FLe(values[1], FMin(Tail(values))) THEN values[1] ELSE FMin(Tail(values))

RECURSIVE FMax(_)
FMax(values) ==
    IF Len(values) = 1 THEN values[1]
    ELSE IF FLe(FMax(Tail(values)), values[1]) THEN values[1] ELSE FMax(Tail(values))

\* (x - avg) ** 2 for x in values
SquaredDeviations(values, avg) ==
    [i \in DOMAIN values |-> FMul(FSub(values[i], avg), FSub(values[i], avg))]

StddevUnguarded(values, avg) ==
    IF Len(values) > 1
    THEN FSqrt(FDivInt(FSum(SquaredDeviations(values, avg), FZero), Len(values) - 1))
    ELSE [exc |-> "ZeroDivisionError"]

Stddev(values, avg) ==
    IF Len(values) > 1
    THEN FSqrt(FDivInt(FSum(SquaredDeviations(values, avg), FZero), Len(values) - 1))
    ELSE FZero

StatsOf(values, avg) ==
    << <<"avg", avg>>, <<"min", FMin(values)>>, <<"max", FMax(values)>>,
       <<"stddev", Stddev(values, avg)>> >>

calculate_stats_binary64(values) ==
    IF values = <<>> THEN <<>>
    ELSE StatsOf(values, FDivInt(FSum(values, FZero), Len(values)))

(***************************************************************************)
(* The counter tables and _is_counter_metric.                              *)
(***************************************************************************)
CADVISOR_COUNTER_METRICS ==
    { "container_cpu_usage_seconds_total",
      "container_cpu_user_seconds_total",
      "container_cpu_system_seconds_total",
      "container_network_receive_bytes_total",
      "container_network_transmit_bytes_total",
      "container_network_receive_packets_total",
      "container_network_transmit_packets_total",
      "container_network_receive_errors_total",
      "container_network_transmit_errors_total",
      "container_network_receive_packets_dropped_total",
      "container_network_transmit_packets_dropped_total",
      "container_fs_reads_total",
      "container_fs_writes_total",
      "container_fs_read_seconds_total",
      "container_fs_write_seconds_total",
      "container_fs_reads_bytes_total",
      "container_fs_writes_bytes_total",
      "container_blkio_device_usage_total" }

NODE_EXPORTER_COUNTER_METRICS ==
    { "node_cpu_seconds_total",
      "node_disk_read_bytes_total",
      "node_disk_written_bytes_total",
      "node_disk_reads_completed_total",
      "node_disk_writes_completed_total",
      "node_disk_read_time_seconds_total",
      "node_disk_write_time_seconds_total",
      "node_network_receive_bytes_total",
      "node_network_transmit_bytes_total",
      "node_network_receive_packets_total",
      "node_network_transmit_packets_total",
      "node_network_receive_errs_total",
      "node_network_transmit_errs_total",
      "node_network_receive_drop_total",
      "node_network_transmit_drop_total",
      "node_context_switches_total",
      "node_intr_total",
      "node_forks_total",
      "node_softnet_dropped_total",
      "node_softnet_processed_total",
      "node_vmstat_pgfault",
      "node_vmstat_pgmajfault",
      "node_vmstat_pgpgin",
      "node_vmstat_pgpgout" }

IsCounterCadvisorOnly(metric_name, source) ==
    source = "cadvisor"
        /\ \E counter \in CADVISOR_COUNTER_METRICS : StartsWith(metric_name, counter)

is_counter_metric(metric_name, source) ==
    IF source = "cadvisor"
    THEN \E counter \in CADVISOR_COUNTER_METRICS : StartsWith(metric_name, counter)
    ELSE IF source = "node_exporter"
    THEN \E counter \in NODE_EXPORTER_COUNTER_METRICS : StartsWith(metric_name, counter)
    ELSE FALSE

(***************************************************************************)
(* The aggregation patterns.  Each regular expression of the tables has    *)
(* the form (?P<base>PREFIX[a-zA-Z0-9_]+)_\{.*NEEDLE.*\} and is held as    *)
(* [prefix |-> PREFIX, needle |-> NEEDLE] (NEEDLE "" where the pattern has *)
(* none); ReMatch is re.match on that form.                                *)
(***************************************************************************)
CADVISOR_AGGREGATION_PATTERNS ==
    << [prefix |-> "container_cpu_", needle |-> "cpu="],
       [prefix |-> "container_network_", needle |-> "interface="],
       [prefix |-> "container_fs_", needle |-> "device="],
       [prefix |-> "container_blkio_", needle |-> "device="] >>

NODE_EXPORTER_AGGREGATION_PATTERNS ==
    << [prefix |-> "node_cpu_", needle |-> "cpu="],
       [prefix |-> "node_network_", needle |-> "device="],
       [prefix |-> "node_disk_", needle |-> "device="],
       [prefix |-> "node_hwmon_", needle |-> ""],
       [prefix |-> "node_thermal_", needle |-> "zone="],
       [prefix |-> "node_cooling_", needle |-> ""] >>

WordChars == "abcdefghijklmnopqrstuvwxyzABCDEFGHIJKLMNOPQRSTUVWXYZ0123456789_"
IsWordChar(c) == Contains(WordChars, c)

\* The index of the first character of s at or after i outside [a-zA-Z0-9_].
RECURSIVE WordRunEnd(_, _)
WordRunEnd(s, i) ==
    IF i > Len(s) THEN Len(s) + 1
    ELSE IF IsWordChar(Ch(s, i)) THEN WordRunEnd(s, i + 1) ELSE i

\* .*NEEDLE.*\} matches a prefix of s: NEEDLE occurs in s with a closing
\* brace somewhere after it, on one line.
MatchesTail(s, needle) ==
    \E i \in 1..(Len(s) + 1 - Len(needle)) :
        /\ SubSeq(s, i, i + Len(needle) - 1) = needle
        /\ \E k \in (i + Len(needle))..Len(s) :
              /\ Ch(s, k) = "}"
              /\ ~Contains(SubSeq(s, 1, k - 1), "\n")

NoMatch == [matched |-> FALSE, base |-> ""]

\* re.match(pattern, key): whether it matches, and the base group.  The greedy run of word
\* characters gives back exactly one "_" for the literal "_\{", because a
\* brace ends the run.
ReMatch(pattern, key) ==
    LET p == Len(pattern.prefix)
        j == WordRunEnd(key, p + 1)
    IN  IF /\ StartsWith(key, pattern.prefix)
           /\ j <= Len(key)
           /\ Ch(key, j) = "{"
           /\ Ch(key, j - 1) = "_"
           /\ j - 2 >= p + 1
           /\ MatchesTail(From(key, j + 1), pattern.needle)
        THEN [matched |-> TRUE, base |-> SubSeq(key, 1, j - 2)]
        ELSE NoMatch

\* _should_aggregate_metric: (True, base name) of the first pattern that
\* matches, or (False, None), held as NoMatch.
RECURSIVE should_aggregate_metric(_, _)
should_aggregate_metric(key, patterns) ==
    IF patterns = <<>> THEN NoMatch
    ELSE LET m == ReMatch(patterns[1], key)
         IN  IF m.matched THEN m
             ELSE should_aggregate_metric(key, Tail(patterns))

(***************************************************************************)
(* The pull collectors.                                                    *)
(***************************************************************************)
\* What requests.get and raise_for_status can do: answer, or raise.
\* The subclasses of requests.RequestException among them.
RequestException == {"Timeout", "ConnectionError", "HTTPError"}

\* aggregation_groups[base_name].append(value) on the defaultdict
GroupAppend(groups, base, value) ==
    DictSet(groups, base,
            IF DictHas(groups, base) THEN Append(DictGet(groups, base), value)
            ELSE <<value>>)

\* The statistics of the groups, then the raw values, under the prefix.
RECURSIVE StatsInto(_, _, _, _)
StatsInto(result, prefix, base, stats) ==
    IF stats = <<>> THEN result
    ELSE StatsInto(DictSet(result, prefix \o base \o "_" \o stats[1][1], stats[1][2]),
                   prefix, base, Tail(stats))

RECURSIVE GroupsInto(_, _, _)
GroupsInto(result, prefix, groups) ==
    IF groups = <<>> THEN result
    ELSE GroupsInto(StatsInto(result, prefix, groups[1][1],
                              calculate_stats(groups[1][2])),
                    prefix, Tail(groups))

RECURSIVE RawInto(_, _, _)
RawInto(result, prefix, raw_values) ==
    IF raw_values = <<>> THEN result
    ELSE RawInto(DictSet(result, prefix \o raw_values[1][1], raw_values[1][2]),
                 prefix, Tail(raw_values))

BuildResult(prefix, groups, raw_values) ==
    RawInto(GroupsInto(<<>>, prefix, groups), prefix, raw_values)

EmitAsFirstWins(st, metric_key, value, agg) ==
    IF agg.matched /\ agg.base # ""
    THEN [st EXCEPT !.groups = GroupAppend(@, agg.base, value)]
    ELSE IF DictHas(st.raw_values, metric_key) THEN st
    ELSE [st EXCEPT !.raw_values = DictSet(@, metric_key, value)]

\* The value goes to its aggregation group, or to raw_values under metric_key.
EmitAs(st, metric_key, value, agg) ==
    IF agg.matched /\ agg.base # ""
    THEN [st EXCEPT !.groups = GroupAppend(@, agg.base, value)]
    ELSE [st EXCEPT !.raw_values = DictSet(@, metric_key, value)]

\* A counter sample, c being what convert returned for it.
ProcessCounter(st, key, metric_name, c, patterns) ==
    IF c.ret = None
    THEN [st EXCEPT !.prev = c.state]
    ELSE EmitAs([st EXCEPT !.prev = c.state], metric_name \o "_rate", c.ret,
                should_aggregate_metric(key, patterns))

\* One sample after the container filter: st is [prev, raw_values, groups].
ProcessSample(st, key, metric_data, source, rate_key, patterns, timestamp) ==
    IF is_counter_metric(metric_data.name, source)
    THEN ProcessCounter(st, key, metric_data.name,
                        convert(st.prev, rate_key, metric_data.value, timestamp),
                        patterns)
    ELSE EmitAs(st, metric_data.name, metric_data.value,
                should_aggregate_metric(key, patterns))

\* The container filter of collect_cadvisor_metrics: the sample is skipped.
FilterNameLabelOnly(labels, container_name) ==
    DictHas(labels, "name") /\ DictGet(labels, "name") # container_name

FilteredOut(labels, container_name) ==
    \/ DictHas(labels, "name") /\ DictGet(labels, "name") # container_name
    \/ DictHas(labels, "container") /\ DictGet(labels, "container") # container_name

RECURSIVE CadvisorLoopSharedKeys(_, _, _, _)
CadvisorLoopSharedKeys(items, container_name, timestamp, st) ==
    IF items = <<>> THEN st
    ELSE IF FilteredOut(items[1][2].labels, container_name)
    THEN CadvisorLoopSharedKeys(Tail(items), container_name, timestamp, st)
    ELSE CadvisorLoopSharedKeys(Tail(items), container_name, timestamp,
             ProcessSample(st, items[1][1], items[1][2], "cadvisor",
                           "cAdvisor_" \o items[1][1],
                           CADVISOR_AGGREGATION_PATTERNS, timestamp))

RECURSIVE CadvisorLoop(_, _, _, _)
CadvisorLoop(items, container_name, timestamp, st) ==
    IF items = <<>> THEN st
    ELSE IF FilteredOut(items[1][2].labels, container_name)
    THEN CadvisorLoop(Tail(items), container_name, timestamp, st)
    ELSE CadvisorLoop(Tail(items), container_name, timestamp,
             ProcessSample(st, items[1][1], items[1][2], "cadvisor",
                           "cAdvisor_" \o container_name \o "_" \o items[1][1],
                           CADVISOR_AGGREGATION_PATTERNS, timestamp))

RECURSIVE NodeExporterLoop(_, _, _)
NodeExporterLoop(items, timestamp, st) ==
    IF items = <<>> THEN st
    ELSE NodeExporterLoop(Tail(items), timestamp,
             ProcessSample(st, items[1][1], items[1][2], "node_exporter",
                           "NodeExporter_" \o items[1][1],
                           NODE_EXPORTER_AGGREGATION_PATTERNS, timestamp))

\* The record built from the loop's final st, and the rate state it left.
Returned(prefix, st) ==
    [ret |-> BuildResult(prefix, st.groups, st.raw_values), state |-> st.prev]

\* The samples of a parsed blob processed at timestamp: the record returned
\* and the rate state left.
CadvisorRecord(prev, container_name, raw_metrics, timestamp) ==
    Returned("cAdvisor_",
             CadvisorLoop(raw_metrics, container_name, timestamp,
                          [prev |-> prev, raw_values |-> <<>>, groups |-> <<>>]))

NodeExporterRecord(prev, raw_metrics, timestamp) ==
    Returned("NodeExporter_",
             NodeExporterLoop(raw_metrics, timestamp,
                              [prev |-> prev, raw_values |-> <<>>, groups |-> <<>>]))

\* The exceptions the except clause of a collector catches.
CaughtTimeoutOnly == {"Timeout"}
CollectCaught == RequestException

\* What a collector returns: raised tells that an exception left the call,
\* ret is the record, state the rate state after the call.
Failed(prev, exc) == [raised |-> exc \notin CollectCaught, ret |-> <<>>, state |-> prev]
Succeeded(r) == [raised |-> FALSE, ret |-> r.ret, state |-> r.state]

CadvisorParsed(prev, container_name, parsed, timestamp) ==
    IF parsed.raised THEN [raised |-> TRUE, ret |-> <<>>, state |-> prev]
    ELSE Succeeded(CadvisorRecord(prev, container_name, parsed.metrics, timestamp))

NodeExporterParsed(prev, parsed, timestamp) ==
    IF parsed.raised THEN [raised |-> TRUE, ret |-> <<>>, state |-> prev]
    ELSE Succeeded(NodeExporterRecord(prev, parsed.metrics, timestamp))

\* collect_cadvisor_metrics and collect_node_exporter_metrics: outcome is
\* what the fetch did, blob the text of the response, timestamp what
\* time.time() returns after the parse.
collect_cadvisor_metrics(prev, container_name, outcome, blob, timestamp) ==
    IF outcome # "ok" THEN Failed(prev, outcome)
    ELSE CadvisorParsed(prev, container_name, parse_prometheus_metrics(blob), timestamp)

collect_node_exporter_metrics(prev, outcome, blob, timestamp) ==
    IF outcome # "ok" THEN Failed(prev, outcome)
    ELSE NodeExporterParsed(prev, parse_prometheus_metrics(blob), timestamp)

(***************************************************************************)
(* The converter on its own: any sequence of convert() calls.              *)
(***************************************************************************)
ConvKeys == {"k1", "k2"}

IdleParse == text = "" /\ metrics = <<>> /\ pc = "idle"
IdleCollect == now = 0 /\ last = None /\ lastOk = <<>> /\ raised = FALSE
IdleWriter ==
    /\ files = {}
    /\ headers_written = <<>>
    /\ fieldnames = <<>>
    /\ csv = <<>>
    /\ lastWrite = None
    /\ tz = <<>>

IdlePush ==
    /\ latest_srsran_metrics = <<>>
    /\ srsran_lock = "free"
    /\ listener = <<>>
    /\ getter = None
    /\ pushLog = None
IdleMain ==
    /\ mpc = "idle"
    /\ stop_event = FALSE
    /\ collector_stop_event = FALSE
    /\ ws_connections = <<>>
    /\ args = None
    /\ loop = None
    /\ closed_files = {}
    /\ tickLog = None

IdleTools == call = None /\ stress = None

InitConvert ==
    /\ previous_values = <<>>
    /\ calls = <<>>
    /\ IdleParse
    /\ IdleCollect
    /\ IdleWriter
    /\ IdlePush
    /\ IdleMain
    /\ IdleTools

Convert(k, v, t) ==
    /\ Len(calls) < MaxCalls
    /\ LET r == convert(previous_values, k, Num(v), Num(t))
       IN  /\ previous_values' = r.state
           /\ calls' = Append(calls,
                  [key |-> k, value |-> v, ts |-> t, ret |-> r.ret,
                   pre |-> IF DictHas(previous_values, k)
                           THEN DictGet(previous_values, k) ELSE None,
                   post |-> IF DictHas(r.state, k)
                            THEN DictGet(r.state, k) ELSE None])
    /\ UNCHANGED <<parseVars, collectVars, writerVars, pushVars, mainVars, toolVars>>

NextConvert ==
    \E k \in ConvKeys, v \in 0..MaxValue, t \in 0..MaxTs : Convert(k, v, t)

SpecConvert == InitConvert /\ [][NextConvert]_vars

(***************************************************************************)
(* The calls made for one key, in order.                                   *)
(***************************************************************************)
CallsOf(k) == LET IsK(c) == c.key = k IN SelectSeq(calls, IsK)

\* C1: the first convert call of a key returns None and stores (v1, t1); a
\* second call with a larger value and a later timestamp returns exactly
\* (v2 - v1) / (t2 - t1) and stores (v2, t2).
C1_FirstNoneSecondRate ==
    \A k \in ConvKeys :
        LET c == CallsOf(k) IN
        /\ Len(c) >= 1 =>
              /\ c[1].pre = None
              /\ c[1].ret = None
              /\ c[1].post = <<Num(c[1].value), Num(c[1].ts)>>
        /\ (Len(c) >= 2 /\ c[2].value > c[1].value /\ c[2].ts > c[1].ts) =>
              /\ c[2].ret # None
              /\ c[2].ret.d > 0
              /\ c[2].ret.n * (c[2].ts - c[1].ts)
                    = (c[2].value - c[1].value) * c[2].ret.d
              /\ c[2].post = <<Num(c[2].value), Num(c[2].ts)>>

C1_Witness ==
    \E k \in ConvKeys :
        LET c == CallsOf(k) IN
        /\ Len(c) >= 2
        /\ c[2].value > c[1].value
        /\ c[2].ts > c[1].ts + 1
        /\ c[2].ret = Rat(c[2].value - c[1].value, c[2].ts - c[1].ts)

\* C2: a convert call whose timestamp is not later than the stored one
\* returns None and leaves the stored (v1, t1) as it was, so the next call of
\* the key with t3 > t1 returns (v3 - v1) / (t3 - t1).
C2_RegressionKeepsState ==
    \A k \in ConvKeys :
        LET c == CallsOf(k) IN
        \A i \in 2..Len(c) :
            (c[i].pre # None /\ RLe(Num(c[i].ts), c[i].pre[2])) =>
                /\ c[i].ret = None
                /\ c[i].post = c[i].pre
                /\ (i < Len(c) /\ RLt(c[i].pre[2], Num(c[i + 1].ts))) =>
                      c[i + 1].ret = RDiv(RSub(Num(c[i + 1].value), c[i].pre[1]),
                                          RSub(Num(c[i + 1].ts), c[i].pre[2]))

\* C38: a rate that convert emits is not negative when the value has not
\* gone down since the stored observation; when the value went down and the
\* timestamp is later, convert still emits a rate, a negative one, and stores
\* the new (value, timestamp).
C38_RateSignFollowsValue ==
    \A i \in DOMAIN calls :
        /\ (calls[i].ret # None /\ RLe(calls[i].pre[1], Num(calls[i].value))) =>
              RLe(Num(0), calls[i].ret)
        /\ (/\ calls[i].pre # None
            /\ RLt(Num(calls[i].value), calls[i].pre[1])
            /\ RLt(calls[i].pre[2], Num(calls[i].ts))) =>
              /\ calls[i].ret # None
              /\ RLt(calls[i].ret, Num(0))
              /\ calls[i].post = <<Num(calls[i].value), Num(calls[i].ts)>>

\* A counter reset: the value went down two seconds after the observation.
C38_Witness ==
    \E i \in DOMAIN calls :
        /\ calls[i].pre # None
        /\ calls[i].pre[1] = Num(calls[i].value + 1)
        /\ calls[i].pre[2] = Num(calls[i].ts - 2)
        /\ calls[i].ret = Rat(-1, 2)

(***************************************************************************)
(* The parser on its own: one blob of at most MaxLines lines, parsed.      *)
(* The lines are every well-formed line over a small vocabulary, in both   *)
(* shapes, and lines that are malformed in each of the ways a line can be. *)
(***************************************************************************)
WFNames == {"foo", "bar"}
WFLabelLists ==
    { <<>>,
      << <<"a", "1">> >>,
      << <<"a", "x,y">> >>,
      << <<"a", "1">>, <<"b", "2">> >> }
\* A value as written, and the number it denotes.
WFValues == { <<"2", Num(2)>>, <<"3.5", Rat(7, 2)>> }

RECURSIVE RenderLabels(_)
RenderLabels(ls) ==
    IF ls = <<>> THEN ""
    ELSE ls[1][1] \o "=\"" \o ls[1][2] \o "\""
         \o (IF Len(ls) > 1 THEN "," ELSE "") \o RenderLabels(Tail(ls))

RenderLabelled(n, ls, v) == n \o "{" \o RenderLabels(ls) \o "} " \o v
RenderPlain(n, v) == n \o " " \o v

LabelledLines ==
    {RenderLabelled(n, ls, v[1]) : n \in WFNames, ls \in WFLabelLists, v \in WFValues}
PlainLines == {RenderPlain(n, v[1]) : n \in WFNames, v \in WFValues}
WellFormedLines == LabelledLines \cup PlainLines

UnbalancedLines ==
    { "foo{a=\"1\" 3",      \* an opening brace that is never closed
      "foo a=\"1\"} 3" }    \* a closing brace that was never opened
MalformedLines ==
    UnbalancedLines \cup
    { "foo abc",            \* the value is not a number
      "foo",                \* no value
      "foo{a=\"1\"}",       \* labels and no value
      "foo 2 junk" }        \* neither shape: a third word
IgnoredLines == {"# HELP foo", ""}

ParseInputLines == WellFormedLines \cup MalformedLines \cup IgnoredLines

RECURSIVE BlobsOf(_)
BlobsOf(k) ==
    IF k = 1 THEN ParseInputLines
    ELSE LET shorter == BlobsOf(k - 1)
         IN  shorter \cup {b \o "\n" \o l : b \in shorter, l \in ParseInputLines}

ParseBlobs == BlobsOf(MaxLines)

InitParse ==
    /\ text \in ParseBlobs
    /\ metrics = <<>>
    /\ pc = "start"
    /\ previous_values = <<>>
    /\ calls = <<>>
    /\ IdleCollect
    /\ IdleWriter
    /\ IdlePush
    /\ IdleMain
    /\ IdleTools

Parse ==
    /\ pc = "start"
    /\ LET r == parse_prometheus_metrics(text)
       IN  /\ metrics' = r.metrics
           /\ pc' = IF r.raised THEN "raised" ELSE "done"
    /\ UNCHANGED <<text, previous_values, convVars, collectVars, writerVars,
                   pushVars, mainVars, toolVars>>

NextParse == Parse

SpecParse == InitParse /\ [][NextParse]_vars

TextLines == Split(text, "\n")
IsWellFormedLine(l) == Strip(l) \in WellFormedLines
IsMalformedLine(l) == Strip(l) \in MalformedLines

\* C6: the parse never raises, and every sample of a well-formed line is
\* returned as it is returned when the malformed lines are left out: a
\* malformed line changes no sample but its own.
C6_MalformedLinesOnlyDropThemselves ==
    /\ pc # "raised"
    /\ pc = "done" =>
          LET alone == parse_prometheus_metrics(
                           Join(SelectSeq(TextLines, IsWellFormedLine), "\n")).metrics
          IN  \A i \in DOMAIN alone :
                  /\ DictHas(metrics, alone[i][1])
                  /\ DictGet(metrics, alone[i][1]) = alone[i][2]

\* C7: a line with unbalanced braces and a numeric value yields no sample
\* and raises nothing.
C7_UnbalancedBracesSkipped ==
    /\ pc # "raised"
    /\ (pc = "done" /\ \A i \in DOMAIN TextLines : TextLines[i] \in UnbalancedLines)
          => metrics = <<>>

\* C8: a well-formed labelled line yields exactly one sample with the name
\* before the brace, each label key mapped to its unquoted value, and the
\* number; a well-formed unlabelled line yields one sample without labels.
C8_WellFormedLineYieldsItsSample ==
    pc = "done" =>
        /\ \A n \in WFNames, ls \in WFLabelLists, v \in WFValues :
              text = RenderLabelled(n, ls, v[1]) =>
                  /\ Len(metrics) = 1
                  /\ metrics[1][2] = [name |-> n, labels |-> ls, value |-> v[2]]
        /\ \A n \in WFNames, v \in WFValues :
              text = RenderPlain(n, v[1]) =>
                  /\ Len(metrics) = 1
                  /\ metrics[1][2] = [name |-> n, labels |-> <<>>, value |-> v[2]]

(***************************************************************************)
(* The pull collectors on one MetricsCollector: collections of the host    *)
(* source and of each container, in any order, each reading the clock      *)
(* after its fetch.  The clock advances between two collections (each      *)
(* makes an HTTP round trip).                                              *)
(***************************************************************************)
Containers == {"c1", "c2"}

\* A gauge and a counter of the host source, one sample each.
TwoLineBlob(g, gv, c, cv) == g \o " " \o gv \o "\n" \o c \o " " \o cv
NodeGauges == {"node_load1"}
NodeCounters == {"node_intr_total"}
GaugeValues == { <<"0.5", Rat(1, 2)>> }
CounterValues == { <<"10", Num(10)>>, <<"30", Num(30)>> }
\* Two samples of one host gauge that differ in a label.
NodeSameNameGauge == "node_filesystem_avail_bytes"
NodeSameNameBlob ==
    NodeSameNameGauge \o "{mountpoint=\"a\"} 7\n" \o
    NodeSameNameGauge \o "{mountpoint=\"b\"} 9"
NodeExporterBlobs ==
    {TwoLineBlob(g, gv[1], c, cv[1]) :
        g \in NodeGauges, gv \in GaugeValues, c \in NodeCounters, cv \in CounterValues}

\* Three per-core samples of one metric that differ in the cpu label only.
PerCoreBase == "container_cpu_load_average_10s"
PerCoreBlob ==
    PerCoreBase \o "{cpu=\"0\"} 1\n" \o
    PerCoreBase \o "{cpu=\"1\"} 2\n" \o
    PerCoreBase \o "{cpu=\"2\"} 6"
\* Samples whose label values hold the text the cpu pattern looks for.
CpuEqualsBlob ==
    PerCoreBase \o "{cpu=\"cpu=0\"} 2\n" \o
    PerCoreBase \o "{cpu=\"cpu=1\"} 4"
\* Samples of two containers under both label conventions, and one of none.
LabelledBlob(v) ==
    "container_memory_usage_bytes{name=\"c1\"} 7\n" \o
    "container_memory_usage_bytes{name=\"c2\"} 9\n" \o
    "container_fs_reads_total{container=\"c2\"} 4\n" \o
    "container_fs_reads_total{container=\"c1\"} " \o v \o "\n" \o
    "container_last_seen 8"
\* Samples no container filter drops: two of a gauge and two of a counter,
\* each pair differing in one label.
SameNameGauge == "container_memory_failures_total"
SameNameCounter == "container_fs_reads_total"
SameNameBlob(v) ==
    SameNameGauge \o "{scope=\"a\"} 7\n" \o
    SameNameGauge \o "{scope=\"b\"} 9\n" \o
    SameNameCounter \o "{device=\"a\"} 1\n" \o
    SameNameCounter \o "{device=\"b\"} " \o v
CadvisorBlobs == {PerCoreBlob, CpuEqualsBlob, LabelledBlob("3"), LabelledBlob("9")}

InitCollect ==
    /\ previous_values = <<>>
    /\ calls = <<>>
    /\ IdleParse
    /\ now = 0
    /\ last = None
    /\ lastOk = <<>>
    /\ raised = FALSE
    /\ IdleWriter
    /\ IdlePush
    /\ IdleMain
    /\ IdleTools

\* The history kept of one collection: r is what the collector returned.
Collected(source, container_name, outcome, blob, ts, r) ==
    LET id == source \o ":" \o container_name
    IN  /\ previous_values' = r.state
        /\ raised' = r.raised
        /\ now' = ts
        /\ last' = [source |-> source, container |-> container_name,
                    outcome |-> outcome, text |-> blob, ts |-> ts, ret |-> r.ret,
                    pre |-> previous_values,
                    prevOk |-> IF DictHas(lastOk, id) THEN DictGet(lastOk, id) ELSE None]
        /\ lastOk' =
              IF outcome = "ok" /\ ~r.raised
              THEN DictSet(lastOk, id, [text |-> blob, ts |-> ts, ret |-> r.ret,
                                        failedSince |-> FALSE])
              ELSE IF DictHas(lastOk, id)
              THEN DictSet(lastOk, id, [DictGet(lastOk, id) EXCEPT !.failedSince = TRUE])
              ELSE lastOk
        /\ UNCHANGED <<convVars, parseVars, writerVars, pushVars, mainVars, toolVars>>

CollectNodeExporter(outcome, blob, dt) ==
    /\ ~raised
    /\ now + dt <= MaxTime
    /\ Collected("node_exporter", "", outcome, blob, now + dt,
                 collect_node_exporter_metrics(previous_values, outcome, blob,
                                               Num(now + dt)))

CollectCadvisor(container_name, outcome, blob, dt) ==
    /\ ~raised
    /\ now + dt <= MaxTime
    /\ Collected("cadvisor", container_name, outcome, blob, now + dt,
                 collect_cadvisor_metrics(previous_values, container_name, outcome,
                                          blob, Num(now + dt)))

NextCollect ==
    \E dt \in 1..MaxDt :
        \/ \E blob \in NodeExporterBlobs : CollectNodeExporter("ok", blob, dt)
        \/ \E exc \in RequestException : CollectNodeExporter(exc, "", dt)
        \/ \E c \in Containers, blob \in CadvisorBlobs : CollectCadvisor(c, "ok", blob, dt)
        \/ \E c \in Containers, exc \in RequestException : CollectCadvisor(c, exc, "", dt)

SpecCollect == InitCollect /\ [][NextCollect]_vars

LastIs(source, outcomes) ==
    last # None /\ last.source = source /\ last.outcome \in outcomes

\* C3: three per-core CPU samples of one metric come out as exactly the four
\* keys <prefix><base>_avg, _min, _max and _stddev, and no per-core value.
C3_PerCoreSamplesAggregated ==
    (LastIs("cadvisor", {"ok"}) /\ last.text = PerCoreBlob) =>
        DictKeys(last.ret) =
            {"cAdvisor_" \o PerCoreBase \o suffix :
                suffix \in {"_avg", "_min", "_max", "_stddev"}}

\* C5: the host collector returns the gauge of a two-line blob with its
\* parsed value; the first collection returns no key for the counter, and a
\* collection one second after the previous one, with a larger counter
\* value, returns the counter's rate (v2 - v1) / 1.0.
C5_GaugePassesCounterRatesOnSecond ==
    LastIs("node_exporter", {"ok"}) =>
        \A g \in NodeGauges, gv \in GaugeValues, c \in NodeCounters, cv \in CounterValues :
            last.text = TwoLineBlob(g, gv[1], c, cv[1]) =>
                /\ DictHas(last.ret, "NodeExporter_" \o g)
                /\ DictGet(last.ret, "NodeExporter_" \o g) = gv[2]
                /\ last.prevOk = None => DictKeys(last.ret) = {"NodeExporter_" \o g}
                /\ \A cv1 \in CounterValues :
                      ( /\ last.prevOk # None
                        /\ \E gv1 \in GaugeValues :
                              last.prevOk.text = TwoLineBlob(g, gv1[1], c, cv1[1])
                        /\ RLt(cv1[2], cv[2])
                        /\ last.ts - last.prevOk.ts = 1 )
                      => /\ DictKeys(last.ret) =
                               {"NodeExporter_" \o g, "NodeExporter_" \o c \o "_rate"}
                         /\ DictGet(last.ret, "NodeExporter_" \o c \o "_rate")
                               = RSub(cv[2], cv1[2])

C5_Witness ==
    /\ LastIs("node_exporter", {"ok"})
    /\ last.prevOk # None
    /\ last.prevOk.ret = << <<"NodeExporter_node_load1", Rat(1, 2)>> >>
    /\ last.ts - last.prevOk.ts = 1
    /\ last.ret = << <<"NodeExporter_node_load1", Rat(1, 2)>>,
                     <<"NodeExporter_node_intr_total_rate", Num(20)>> >>

\* C9: a collection whose fetch fails returns an empty record and raises
\* nothing, so the caller goes on, and leaves the rate state as it was: the
\* next successful collection rates against the last successful one.
C9_TransportFailureIsEmptyAndKeepsState ==
    /\ ~raised
    /\ (last # None /\ last.outcome \in RequestException) =>
          /\ last.ret = <<>>
          /\ previous_values = last.pre
    /\ (LastIs("node_exporter", {"ok"}) /\ last.prevOk # None) =>
          \A g \in NodeGauges, gv \in GaugeValues, c \in NodeCounters,
             cv \in CounterValues, cv1 \in CounterValues :
              ( /\ last.text = TwoLineBlob(g, gv[1], c, cv[1])
                /\ last.prevOk.text = TwoLineBlob(g, gv[1], c, cv1[1]) )
              => /\ DictHas(last.ret, "NodeExporter_" \o c \o "_rate")
                 /\ DictGet(last.ret, "NodeExporter_" \o c \o "_rate")
                       = RDiv(RSub(cv[2], cv1[2]), Num(last.ts - last.prevOk.ts))

C9_Witness ==
    /\ LastIs("node_exporter", {"ok"})
    /\ last.prevOk # None
    /\ last.prevOk.failedSince
    /\ last.ts - last.prevOk.ts = 2
    /\ DictHas(last.ret, "NodeExporter_node_intr_total_rate")
    /\ DictGet(last.ret, "NodeExporter_node_intr_total_rate") = Num(10)

\* C24: every key of a record returned by the container collector begins
\* with "cAdvisor_" and every key of a record returned by the host collector
\* begins with "nodeExporter_", for aggregated and single samples alike.
C24_KeysCarrySourcePrefix ==
    last # None =>
        \A k \in DictKeys(last.ret) :
            StartsWith(k, IF last.source = "cadvisor" THEN "cAdvisor_"
                          ELSE "nodeExporter_")

\* C10: in a collection for container c, the samples whose name or container
\* label names another container change neither the record nor the rate
\* state; the samples with neither label are retained for every target.
Foreign(labels, c) ==
    \E l \in {"name", "container"} : DictHas(labels, l) /\ DictGet(labels, l) # c

C10_ForeignSamplesNeverContribute ==
    LastIs("cadvisor", {"ok"}) =>
        LET c == last.container
            parsed == parse_prometheus_metrics(last.text).metrics
            IsOwn(e) == ~Foreign(e[2].labels, c)
            own == CadvisorRecord(last.pre, c, SelectSeq(parsed, IsOwn), Num(last.ts))
        IN  /\ last.ret = own.ret
            /\ previous_values = own.state
            /\ \A i \in DOMAIN parsed :
                  LET key == parsed[i][1]
                      labels == parsed[i][2].labels
                      name == parsed[i][2].name
                      rate_key == "cAdvisor_" \o c \o "_" \o key
                      other == "cAdvisor_" \o CHOOSE o \in Containers : o # c
                  IN  /\ Foreign(labels, c) =>
                            \/ ~DictHas(previous_values, rate_key) /\ ~DictHas(last.pre, rate_key)
                            \/ /\ DictHas(previous_values, rate_key)
                               /\ DictHas(last.pre, rate_key)
                               /\ DictGet(previous_values, rate_key) = DictGet(last.pre, rate_key)
                      /\ (~DictHas(labels, "name") /\ ~DictHas(labels, "container")) =>
                            IF is_counter_metric(name, "cadvisor")
                            THEN /\ DictHas(previous_values, rate_key)
                                 /\ DictGet(previous_values, rate_key)
                                       = <<parsed[i][2].value, Num(last.ts)>>
                            ELSE \E k \in DictKeys(last.ret) : StartsWith(k, "cAdvisor_" \o name)

C10_Witness ==
    /\ LastIs("cadvisor", {"ok"})
    /\ last.container = "c1"
    /\ last.text = LabelledBlob("9")
    /\ last.ret = << <<"cAdvisor_container_memory_usage_bytes", Num(7)>>,
                     <<"cAdvisor_container_fs_reads_total_rate", Num(3)>>,
                     <<"cAdvisor_container_last_seen", Num(8)>> >>

(***************************************************************************)
(* DataWriter.  A value of the metrics dictionary is a leaf, a dictionary  *)
(* or a list; a leaf holds the text csv writes for it.                     *)
(***************************************************************************)
Leaf(v) == [leaf |-> v]
DictOf(d) == [dict |-> d]
ListOf(l) == [list |-> l]
IsDict(v) == "dict" \in DOMAIN v
IsList(v) == "list" \in DOMAIN v

\* str(i) of a natural number, and of a float with that value.
RECURSIVE str(_)
str(i) ==
    IF i < 10 THEN Ch(Digits, i + 1)
    ELSE str(i \div 10) \o Ch(Digits, (i % 10) + 1)

FloatStr(i) == str(i) \o ".0"

\* The offset of local time from UTC at t, in seconds: summer time until
\* the clocks of the zone go back.
utcoffset(t) == IF tz # <<>> /\ t < tz[1] THEN 3600 ELSE 0

TwoDigits(i) == (IF i < 10 THEN "0" ELSE "") \o str(i)

\* isoformat() of a naive datetime of the first day of the epoch, seconds
\* being the seconds since its midnight.
IsoOfDay(seconds) ==
    "1970-01-01T" \o TwoDigits(seconds \div 3600) \o ":"
        \o TwoDigits((seconds % 3600) \div 60) \o ":" \o TwoDigits(seconds % 60)

\* datetime.fromtimestamp(timestamp).isoformat(): the naive local time.
isoformat(timestamp) == IsoOfDay(timestamp + utcoffset(timestamp))

\* The order of the code points of the characters of the keys.
CodePoints == "-.0123456789:ABCDEFGHIJKLMNOPQRSTUVWXYZ_abcdefghijklmnopqrstuvwxyz"
ord(c) == Find(CodePoints, c)

RECURSIVE StrLess(_, _)
StrLess(a, b) ==
    IF b = "" THEN FALSE
    ELSE IF a = "" THEN TRUE
    ELSE IF Ch(a, 1) = Ch(b, 1) THEN StrLess(From(a, 2), From(b, 2))
    ELSE ord(Ch(a, 1)) < ord(Ch(b, 1))

RECURSIVE sorted(_)
sorted(S) ==
    IF S = {} THEN <<>>
    ELSE LET m == CHOOSE x \in S : \A y \in S \ {x} : StrLess(x, y)
         IN  <<m>> \o sorted(S \ {m})

RECURSIVE flatten_dict(_, _, _)
RECURSIVE FlattenItems(_, _, _)

\* The items the elements of a list contribute, i being the index of l[1].
RECURSIVE FlattenList(_, _, _, _)
FlattenList(l, new_key, sep, i) ==
    IF l = <<>> THEN <<>>
    ELSE (IF IsDict(l[1])
          THEN flatten_dict(l[1].dict, new_key \o "_" \o str(i), sep)
          ELSE << <<new_key \o "_" \o str(i), l[1]>> >>)
         \o FlattenList(Tail(l), new_key, sep, i + 1)

\* The list items after the loop over d.items().
FlattenItems(d, parent_key, sep) ==
    IF d = <<>> THEN <<>>
    ELSE LET k == d[1][1]
             v == d[1][2]
             new_key == IF parent_key # "" THEN parent_key \o sep \o k ELSE k
         IN  (IF IsDict(v) THEN flatten_dict(v.dict, new_key, sep)
              ELSE IF IsList(v) THEN FlattenList(v.list, new_key, sep, 0)
              ELSE << <<new_key, v>> >>)
             \o FlattenItems(Tail(d), parent_key, sep)

flatten_dict(d, parent_key, sep) == DictUpdate(<<>>, FlattenItems(d, parent_key, sep))

\* The digits of the fraction r / d, r < d, for as long as it goes on
\* (at most k digits).
RECURSIVE FractionDigits(_, _, _)
FractionDigits(r, d, k) ==
    IF r = 0 \/ k = 0 THEN ""
    ELSE str((10 * r) \div d) \o FractionDigits((10 * r) % d, d, k - 1)

\* repr of a float of moderate size whose decimal expansion ends.
FloatRepr(q) ==
    (IF q.n < 0 THEN "-" ELSE "") \o str(Abs(q.n) \div q.d) \o "."
        \o (IF Abs(q.n) % q.d = 0 THEN "0" ELSE FractionDigits(Abs(q.n) % q.d, q.d, 17))

\* str() of a list of scalars: [1, 2].
RECURSIVE ListItems(_)
ListItems(l) ==
    IF l = <<>> THEN ""
    ELSE l[1].leaf \o (IF Len(l) > 1 THEN ", " ELSE "") \o ListItems(Tail(l))

\* The text csv writes for a value: a leaf holds it, a list is written by
\* its str, a float by its repr.
CellText(v) ==
    IF "leaf" \in DOMAIN v THEN v.leaf
    ELSE IF IsList(v) THEN "[" \o ListItems(v.list) \o "]"
    ELSE FloatRepr(v)

\* The cells csv.DictWriter writes for rowdict: one per field name, "" for a
\* field the row lacks, nothing for a key that is no field name.
DictToList(fields, rowdict) ==
    [i \in DOMAIN fields |->
        IF DictHas(rowdict, fields[i]) THEN CellText(DictGet(rowdict, fields[i])) ELSE ""]

\* The writer W is [files, headers_written, fieldnames, csv]: the nodes with
\* an open file, _headers_written, the field names of each node's
\* DictWriter, and the rows of each node's file.
OpenFileEachWrite(W, node_name) ==
    [W EXCEPT !.files = @ \cup {node_name},
              !.headers_written = DictSet(@, node_name, {}),
              !.csv = DictSet(@, node_name, <<>>)]

OpenFile(W, node_name) ==
    IF node_name \in W.files THEN W
    ELSE [W EXCEPT !.files = @ \cup {node_name},
                   !.headers_written = DictSet(@, node_name, {}),
                   !.csv = DictSet(@, node_name, <<>>)]

\* csv.DictWriter(file, fieldnames=headers, ...) and writeheader()
WriteHeader(W, node_name, headers) ==
    [W EXCEPT !.fieldnames = DictSet(@, node_name, headers),
              !.csv = DictSet(@, node_name, Append(DictGet(@, node_name), headers))]

RECURSIVE Reversed(_)
Reversed(l) == IF l = <<>> THEN <<>> ELSE Append(Reversed(Tail(l)), l[1])

HeaderListUnsorted(current_headers) ==
    <<"timestamp", "timestamp_unix">>
        \o Reversed(sorted(current_headers \ {"timestamp", "timestamp_unix"}))

\* headers = ["timestamp", "timestamp_unix"] + sorted([...])
HeaderList(current_headers) ==
    <<"timestamp", "timestamp_unix">>
        \o sorted(current_headers \ {"timestamp", "timestamp_unix"})

UpdateHeadersRecreates(W, node_name, current_headers) ==
    IF DictGet(W.headers_written, node_name) = {}
           \/ current_headers \ DictGet(W.headers_written, node_name) # {}
    THEN WriteHeader([W EXCEPT !.headers_written =
                                   DictSet(@, node_name,
                                           DictGet(@, node_name) \cup current_headers)],
                     node_name,
                     HeaderList(DictGet(W.headers_written, node_name)
                                    \cup current_headers))
    ELSE W

\* The if / elif on _headers_written[node_name].
UpdateHeaders(W, node_name, current_headers) ==
    IF DictGet(W.headers_written, node_name) = {}
    THEN WriteHeader([W EXCEPT !.headers_written =
                                   DictSet(@, node_name, current_headers)],
                     node_name, HeaderList(current_headers))
    ELSE IF current_headers \ DictGet(W.headers_written, node_name) # {}
    THEN [W EXCEPT !.headers_written =
                       DictSet(@, node_name, DictGet(@, node_name) \cup current_headers)]
    ELSE W

\* self._writers[node_name].writerow(flat_metrics)
WriteRow(W, node_name, flat_metrics) ==
    [W EXCEPT !.csv = DictSet(@, node_name,
                          Append(DictGet(@, node_name),
                                 DictToList(DictGet(W.fieldnames, node_name),
                                            flat_metrics)))]

\* flat_metrics with its two timestamp columns.
Stamped(flat_metrics, timestamp) ==
    DictSet(DictSet(flat_metrics, "timestamp", Leaf(isoformat(timestamp))),
            "timestamp_unix", Leaf(FloatStr(timestamp)))

WriteFlat(W, node_name, flat_metrics) ==
    WriteRow(UpdateHeaders(W, node_name, DictKeys(flat_metrics)), node_name, flat_metrics)

\* sample is the metrics argument.
write_sample(W, node_name, timestamp, sample) ==
    IF sample = <<>> THEN W
    ELSE WriteFlat(OpenFile(W, node_name), node_name,
                   Stamped(flatten_dict(sample, "", "_"), timestamp))

(***************************************************************************)
(* One DataWriter: samples of the nodes written in any order, one per      *)
(* tick of the clock.                                                      *)
(***************************************************************************)
Nodes == {"cu", "du"}

SampleDicts ==
    { <<>>,
      << <<"b", Leaf("1")>>, <<"a", Leaf("2")>> >>,
      << <<"a", Leaf("3")>>, <<"c", Leaf("4")>> >>,
      << <<"a", DictOf(<< <<"x", Leaf("5")>> >>)>>,
         <<"B", ListOf(<< Leaf("6"), DictOf(<< <<"y", Leaf("7")>> >>) >>)>> >>,
      << <<"a", DictOf(<<>>)>> >>,
      << <<"a", ListOf(<< ListOf(<< Leaf("1"), Leaf("2") >>), Leaf("3") >>)>> >> }

Writer == [files |-> files, headers_written |-> headers_written,
           fieldnames |-> fieldnames, csv |-> csv]

\* The zones a run is made in: UTC, or one whose summer time ends during
\* the run.
Zones == {<<>>} \cup {<<t>> : t \in 2..MaxWrites}

InitWriter ==
    /\ previous_values = <<>>
    /\ calls = <<>>
    /\ IdleParse
    /\ IdleCollect
    /\ files = {}
    /\ headers_written = <<>>
    /\ fieldnames = <<>>
    /\ csv = <<>>
    /\ lastWrite = None
    /\ tz \in Zones
    /\ IdlePush
    /\ IdleMain
    /\ IdleTools

Wrote(node_name, timestamp, sample, W) ==
    /\ files' = W.files
    /\ headers_written' = W.headers_written
    /\ fieldnames' = W.fieldnames
    /\ csv' = W.csv
    /\ now' = timestamp
    /\ lastWrite' = [node |-> node_name, timestamp |-> timestamp,
                     metrics |-> sample, pre |-> Writer]
    /\ UNCHANGED <<previous_values, convVars, parseVars, last, lastOk, raised,
                   pushVars, mainVars, toolVars, tz>>

Write(node_name, sample) ==
    /\ now < MaxWrites
    /\ Wrote(node_name, now + 1, sample,
             write_sample(Writer, node_name, now + 1, sample))

NextWriter == \E node_name \in Nodes, sample \in SampleDicts : Write(node_name, sample)

SpecWriter == InitWriter /\ [][NextWriter]_vars

RowsOf(files_csv, node_name) ==
    IF DictHas(files_csv, node_name) THEN DictGet(files_csv, node_name) ELSE <<>>

SameEntry(before, after, n) ==
    /\ DictHas(before, n) = DictHas(after, n)
    /\ DictHas(before, n) => DictGet(before, n) = DictGet(after, n)

IsPrefix(rows, more) == Len(rows) <= Len(more) /\ SubSeq(more, 1, Len(rows)) = rows

C23_FlattenedValuesAreScalars ==
    lastWrite # None =>
        \A i \in DOMAIN flatten_dict(lastWrite.metrics, "", "_") :
            "leaf" \in DOMAIN flatten_dict(lastWrite.metrics, "", "_")[i][2]

\* C21 (one node's log): the rows of a node's file are in strictly
\* increasing order of their timestamp column, so no two rows carry the
\* same timestamp, the clock advancing between the writes.
C21_TimestampIsIncreasingKey ==
    \A n \in DictKeys(csv) :
        \A i, j \in 2..Len(DictGet(csv, n)) :
            i < j => StrLess(DictGet(csv, n)[i][1], DictGet(csv, n)[j][1])

(***************************************************************************)
(* json.loads on the messages of the srsRAN socket: objects, arrays,       *)
(* strings without escapes, integers, true, false and null.  An object is  *)
(* DictOf its items, an array ListOf its elements; a scalar is a leaf with *)
(* the text csv writes for it and the name of its Python type.             *)
(***************************************************************************)
JsonStr(s) == [leaf |-> s, type |-> "str"]
JsonInt(s) == [leaf |-> s, type |-> "int"]
JsonBool(s) == [leaf |-> s, type |-> "bool"]
JsonNull == [leaf |-> "", type |-> "NoneType"]

JsonWhitespace == {" ", "\t", "\n", "\r"}
SkipWs(s) == LStripSet(s, JsonWhitespace)

\* The result of scanning one value: ok, the value, and the text after it.
Scanned(value, rest) == [ok |-> TRUE, value |-> value, rest |-> rest]
NotJson == [ok |-> FALSE, value |-> JsonNull, rest |-> ""]

\* The length of the run of digits s starts with.
RECURSIVE DigitRun(_)
DigitRun(s) == IF s # "" /\ IsDigit(Ch(s, 1)) THEN 1 + DigitRun(From(s, 2)) ELSE 0

\* An integer: "0" or a digit run without a leading zero, after sign.
ScanDigits(sign, s, n) ==
    IF n = 0 THEN NotJson
    ELSE IF Ch(s, 1) = "0" THEN Scanned(JsonInt(sign \o "0"), From(s, 2))
    ELSE Scanned(JsonInt(sign \o SubSeq(s, 1, n)), From(s, n + 1))

ScanNumber(s) ==
    IF Ch(s, 1) = "-" THEN ScanDigits("-", From(s, 2), DigitRun(From(s, 2)))
    ELSE ScanDigits("", s, DigitRun(s))

\* A string: s is the text after the opening quote, q the place of the
\* closing one.
ScanStringTo(s, q) ==
    IF q = 0 \/ Contains(SubSeq(s, 1, q - 1), "\\") THEN NotJson
    ELSE Scanned(JsonStr(SubSeq(s, 1, q - 1)), From(s, q + 1))

ScanString(s) == ScanStringTo(s, Find(s, "\""))

RECURSIVE ScanValue(_)
RECURSIVE ScanMembers(_, _)
RECURSIVE ScanElements(_, _)

\* After a member or an element r: a comma and the next one, or the end.
AfterElement(r, rest, acc) ==
    IF ~r.ok THEN NotJson
    ELSE IF StartsWith(rest, "]") THEN Scanned(ListOf(Append(acc, r.value)), From(rest, 2))
    ELSE IF StartsWith(rest, ",") THEN ScanElements(SkipWs(From(rest, 2)), Append(acc, r.value))
    ELSE NotJson

ElementScanned(r, acc) == AfterElement(r, SkipWs(r.rest), acc)

ScanElements(s, acc) == ElementScanned(ScanValue(s), acc)

AfterMember(k, r, rest, acc) ==
    IF ~r.ok THEN NotJson
    ELSE IF StartsWith(rest, "}")
    THEN Scanned(DictOf(DictSet(acc, k.value.leaf, r.value)), From(rest, 2))
    ELSE IF StartsWith(rest, ",") /\ StartsWith(SkipWs(From(rest, 2)), "\"")
    THEN ScanMembers(SkipWs(From(rest, 2)), DictSet(acc, k.value.leaf, r.value))
    ELSE NotJson

MemberScanned(k, r, acc) == AfterMember(k, r, SkipWs(r.rest), acc)

\* k is the scanned key, rest the text after it.
KeyScanned(k, rest, acc) ==
    IF ~k.ok \/ ~StartsWith(rest, ":") THEN NotJson
    ELSE MemberScanned(k, ScanValue(SkipWs(From(rest, 2))), acc)

KeyOf(k, acc) == KeyScanned(k, SkipWs(k.rest), acc)

\* s starts with the quote of a key.
ScanMembers(s, acc) == KeyOf(ScanString(From(s, 2)), acc)

ScanObject(s) ==
    IF StartsWith(s, "}") THEN Scanned(DictOf(<<>>), From(s, 2))
    ELSE IF StartsWith(s, "\"") THEN ScanMembers(s, <<>>)
    ELSE NotJson

ScanArray(s) ==
    IF StartsWith(s, "]") THEN Scanned(ListOf(<<>>), From(s, 2))
    ELSE ScanElements(s, <<>>)

ScanValue(s) ==
    IF s = "" THEN NotJson
    ELSE IF Ch(s, 1) = "{" THEN ScanObject(SkipWs(From(s, 2)))
    ELSE IF Ch(s, 1) = "[" THEN ScanArray(SkipWs(From(s, 2)))
    ELSE IF Ch(s, 1) = "\"" THEN ScanString(From(s, 2))
    ELSE IF Ch(s, 1) = "-" \/ IsDigit(Ch(s, 1)) THEN ScanNumber(s)
    ELSE IF StartsWith(s, "true") THEN Scanned(JsonBool("True"), From(s, 5))
    ELSE IF StartsWith(s, "false") THEN Scanned(JsonBool("False"), From(s, 6))
    ELSE IF StartsWith(s, "null") THEN Scanned(JsonNull, From(s, 5))
    ELSE NotJson

\* json.loads: exc is "" and value the decoded value, or exc is the
\* exception raised.
Decoded(r) ==
    IF r.ok /\ SkipWs(r.rest) = "" THEN [exc |-> "", value |-> r.value]
    ELSE [exc |-> "JSONDecodeError", value |-> JsonNull]

json_loads(message) == Decoded(ScanValue(SkipWs(message)))

(***************************************************************************)
(* MetricsCollector._on_srsran_message and get_srsran_metrics on the       *)
(* mapping _latest_srsran_metrics.                                         *)
(***************************************************************************)
\* The result of an expression that may raise: exc is "" and value its
\* value, or exc the exception.
Value(v) == [exc |-> "", value |-> v]
Raise(exc) == [exc |-> exc, value |-> JsonNull]

CmdInNever(data) == Value(FALSE)

\* "cmd" in data
CmdIn(data) ==
    IF IsDict(data) THEN Value(DictHas(data.dict, "cmd"))
    ELSE IF IsList(data) THEN Value(\E i \in DOMAIN data.list : data.list[i] = JsonStr("cmd"))
    ELSE IF data.type = "str" THEN Value(Contains(data.leaf, "cmd"))
    ELSE Raise("TypeError")

\* The exceptions the except clause of the handler catches.
MessageCaught == {"JSONDecodeError"}

\* What the handler does with a message before it takes the lock: raised
\* is the exception that leaves the handler or "", store tells whether
\* data is to be stored.
Decide(data, c) ==
    IF c.exc # "" THEN [raised |-> c.exc, store |-> FALSE, data |-> data]
    ELSE [raised |-> "", store |-> ~c.value, data |-> data]

DecideDecoded(d) ==
    IF d.exc \in MessageCaught THEN [raised |-> "", store |-> FALSE, data |-> d.value]
    ELSE IF d.exc # "" THEN [raised |-> d.exc, store |-> FALSE, data |-> d.value]
    ELSE Decide(d.value, CmdIn(d.value))

Decision(message) == DecideDecoded(json_loads(message))

\* self._latest_srsran_metrics[node_name] = data
StoreLatest(cache, node_name, data) == DictSet(cache, node_name, data)

Handled(cache, node_name, dec) ==
    [raised |-> dec.raised,
     cache |-> IF dec.store THEN StoreLatest(cache, node_name, dec.data) ELSE cache]

on_srsran_message(cache, node_name, message) ==
    Handled(cache, node_name, Decision(message))

\* value.copy(): a dict and a list have the method, a str has not.
Copy(v) == IF IsDict(v) \/ IsList(v) THEN Value(v) ELSE Raise("AttributeError")

\* self._latest_srsran_metrics.get(node_name, {})
LatestOf(cache, node_name) ==
    IF DictHas(cache, node_name) THEN DictGet(cache, node_name) ELSE DictOf(<<>>)

get_srsran_metrics(cache, node_name) == Copy(LatestOf(cache, node_name))

(***************************************************************************)
(* The push cache under concurrency: one WebSocket thread per node runs    *)
(* the message handler, the main thread runs get_srsran_metrics, and       *)
(* every thread takes _srsran_lock around its access to the mapping.       *)
(***************************************************************************)
\* The echo of the subscription request.
AckMessages == {"{\"cmd\": \"metrics_subscribe\"}"}
\* Telemetry records, each with the value it stands for.
RecordMessages ==
    { <<"{\"a\": 1}", DictOf(<< <<"a", JsonInt("1")>> >>)>>,
      <<"{\"a\": 2, \"b\": {\"cmd\": 3}}",
        DictOf(<< <<"a", JsonInt("2")>>,
                  <<"b", DictOf(<< <<"cmd", JsonInt("3")>> >>)>> >>)>> }
\* Text that is no JSON, and JSON that is no record.
MalformedMessages == {"nope", "5", "[1]", "\"hello\""}
PushMessages ==
    AckMessages \cup {r[1] : r \in RecordMessages} \cup MalformedMessages

NoMessage == [message |-> "", raised |-> "", stored |-> FALSE]

InitPush ==
    /\ previous_values = <<>>
    /\ calls = <<>>
    /\ IdleParse
    /\ IdleCollect
    /\ IdleWriter
    /\ IdleMain
    /\ IdleTools
    /\ latest_srsran_metrics = <<>>
    /\ srsran_lock = "free"
    /\ listener = [n \in Nodes |-> [pc |-> "idle", data |-> JsonNull]]
    /\ getter = [pc |-> "idle", node |-> ""]
    /\ pushLog = [received |-> 0,
                  stored |-> [n \in Nodes |-> {}],
                  accepted |-> <<>>,
                  lastMsg |-> [n \in Nodes |-> NoMessage],
                  lastStore |-> None,
                  lastGet |-> None]

PushFrame == UNCHANGED <<previous_values, convVars, parseVars, collectVars,
                         writerVars, mainVars, toolVars>>

CanAcquireAlways(lock) == TRUE

\* threading.Lock.acquire returns once the lock is free.
CanAcquire(lock) == lock = "free"

\* The handler up to the with statement: dec is what it decided.
Received(n, message, dec) ==
    /\ listener' = [listener EXCEPT ![n] =
                       [pc |-> IF dec.raised = "" /\ dec.store THEN "acquire" ELSE "idle",
                        data |-> dec.data]]
    /\ pushLog' = [pushLog EXCEPT !.received = @ + 1,
                                  !.lastMsg[n] = [message |-> message,
                                                  raised |-> dec.raised,
                                                  stored |-> FALSE]]
    /\ UNCHANGED <<latest_srsran_metrics, srsran_lock, getter>>
    /\ PushFrame

Receive(n, message) ==
    /\ listener[n].pc = "idle"
    /\ pushLog.received < MaxMessages
    /\ Received(n, message, Decision(message))

Acquire(n) ==
    /\ listener[n].pc = "acquire"
    /\ CanAcquire(srsran_lock)
    /\ srsran_lock' = n
    /\ listener' = [listener EXCEPT ![n].pc = "locked"]
    /\ UNCHANGED <<latest_srsran_metrics, getter, pushLog>>
    /\ PushFrame

Stored(n, cache) ==
    /\ latest_srsran_metrics' = cache
    /\ listener' = [listener EXCEPT ![n].pc = "release"]
    /\ pushLog' = [pushLog EXCEPT
                      !.stored[n] = @ \cup {listener[n].data},
                      !.accepted =
                          IF \E r \in RecordMessages : r[1] = pushLog.lastMsg[n].message
                          THEN DictSet(@, n, listener[n].data) ELSE @,
                      !.lastMsg[n].stored = TRUE,
                      !.lastStore = [node |-> n, before |-> latest_srsran_metrics,
                                     after |-> cache]]
    /\ UNCHANGED <<srsran_lock, getter>>
    /\ PushFrame

Store(n) ==
    /\ listener[n].pc = "locked"
    /\ Stored(n, StoreLatest(latest_srsran_metrics, n, listener[n].data))

Release(n) ==
    /\ listener[n].pc = "release"
    /\ srsran_lock' = "free"
    /\ listener' = [listener EXCEPT ![n].pc = "idle"]
    /\ UNCHANGED <<latest_srsran_metrics, getter, pushLog>>
    /\ PushFrame

GetStart(n) ==
    /\ getter.pc = "idle"
    /\ getter' = [pc |-> "acquire", node |-> n]
    /\ UNCHANGED <<latest_srsran_metrics, srsran_lock, listener, pushLog>>
    /\ PushFrame

GetAcquire ==
    /\ getter.pc = "acquire"
    /\ CanAcquire(srsran_lock)
    /\ srsran_lock' = "main"
    /\ getter' = [getter EXCEPT !.pc = "locked"]
    /\ UNCHANGED <<latest_srsran_metrics, listener, pushLog>>
    /\ PushFrame

\* The return expression, evaluated inside the with statement.
GetRead ==
    /\ getter.pc = "locked"
    /\ getter' = [getter EXCEPT !.pc = "release"]
    /\ pushLog' = [pushLog EXCEPT !.lastGet =
                      [node |-> getter.node,
                       result |-> get_srsran_metrics(latest_srsran_metrics, getter.node),
                       accepted |-> pushLog.accepted,
                       before |-> latest_srsran_metrics]]
    /\ UNCHANGED <<latest_srsran_metrics, srsran_lock, listener>>
    /\ PushFrame

GetRelease ==
    /\ getter.pc = "release"
    /\ srsran_lock' = "free"
    /\ getter' = [getter EXCEPT !.pc = "idle"]
    /\ UNCHANGED <<latest_srsran_metrics, listener, pushLog>>
    /\ PushFrame

NextPush ==
    \/ \E n \in Nodes, message \in PushMessages : Receive(n, message)
    \/ \E n \in Nodes : Acquire(n)
    \/ \E n \in Nodes : Store(n)
    \/ \E n \in Nodes : Release(n)
    \/ \E n \in Nodes : GetStart(n)
    \/ GetAcquire
    \/ GetRead
    \/ GetRelease

SpecPush == InitPush /\ [][NextPush]_vars

\* C11: when the handler of a node has finished a message that is the
\* echo of a command, it has stored nothing; when it has finished a
\* telemetry record, the node's cached value is that record, whole.
C11_AckDiscardedRecordReplaces ==
    \A n \in Nodes :
        listener[n].pc = "idle" =>
            /\ pushLog.lastMsg[n].message \in AckMessages =>
                  /\ pushLog.lastMsg[n].raised = ""
                  /\ ~pushLog.lastMsg[n].stored
            /\ \A r \in RecordMessages :
                  pushLog.lastMsg[n].message = r[1] =>
                      /\ pushLog.lastMsg[n].raised = ""
                      /\ pushLog.lastMsg[n].stored
                      /\ DictHas(latest_srsran_metrics, n)
                      /\ DictGet(latest_srsran_metrics, n) = r[2]

\* The echo of a command arrives after a record and leaves it in place.
C11_Witness ==
    /\ listener["cu"].pc = "idle"
    /\ pushLog.lastMsg["cu"].message \in AckMessages
    /\ ~pushLog.lastMsg["cu"].stored
    /\ pushLog.lastStore # None
    /\ pushLog.lastStore.node = "cu"
    /\ DictHas(latest_srsran_metrics, "cu")
    /\ DictGet(latest_srsran_metrics, "cu") =
          DictOf(<< <<"a", JsonInt("2")>>,
                    <<"b", DictOf(<< <<"cmd", JsonInt("3")>> >>)>> >>)

\* C12: the handler of a malformed message raises nothing and stores
\* nothing.
C12_MalformedDiscardedSilently ==
    \A n \in Nodes :
        (listener[n].pc = "idle" /\ pushLog.lastMsg[n].message \in MalformedMessages) =>
            /\ pushLog.lastMsg[n].raised = ""
            /\ ~pushLog.lastMsg[n].stored

\* C13: a read returns, without raising and without changing the mapping,
\* the record of the node's most recent accepted message, or an empty
\* record when the node has none.
C13_GetReturnsLatestAccepted ==
    pushLog.lastGet # None =>
        /\ pushLog.lastGet.result.exc = ""
        /\ pushLog.lastGet.result.value =
              (IF DictHas(pushLog.lastGet.accepted, pushLog.lastGet.node)
               THEN DictGet(pushLog.lastGet.accepted, pushLog.lastGet.node)
               ELSE DictOf(<<>>))
        /\ getter.pc = "release" => latest_srsran_metrics = pushLog.lastGet.before

InRegion == {n \in Nodes : listener[n].pc \in {"locked", "release"}}
                \cup (IF getter.pc \in {"locked", "release"} THEN {"main"} ELSE {})

\* C14: at most one thread is between the acquisition and the release of
\* the lock, and it is the holder; a read that returns returns an empty
\* record or a value one completed store put there for that node; a store
\* for one node leaves the entry of every other node as it was.
C14_CacheAccessExclusive ==
    /\ Cardinality(InRegion) <= 1
    /\ \A t \in InRegion : srsran_lock = t
    /\ (pushLog.lastGet # None /\ pushLog.lastGet.result.exc = "") =>
          \/ pushLog.lastGet.result.value = DictOf(<<>>)
          \/ pushLog.lastGet.result.value \in pushLog.stored[pushLog.lastGet.node]
    /\ pushLog.lastStore # None =>
          \A m \in Nodes \ {pushLog.lastStore.node} :
              /\ DictHas(pushLog.lastStore.after, m) = DictHas(pushLog.lastStore.before, m)
              /\ DictHas(pushLog.lastStore.before, m) =>
                    DictGet(pushLog.lastStore.after, m) = DictGet(pushLog.lastStore.before, m)

\* A read waits for the lock while a handler holds it to store the first
\* record of a node beside the record of the other, which an earlier read
\* returned.
C14_Witness ==
    /\ getter.pc = "acquire"
    /\ srsran_lock = "du"
    /\ listener["du"].pc = "release"
    /\ pushLog.lastStore # None
    /\ pushLog.lastStore.node = "du"
    /\ DictKeys(pushLog.lastStore.before) = {"cu"}
    /\ pushLog.lastGet # None
    /\ pushLog.lastGet.node = "cu"
    /\ pushLog.lastGet.result.exc = ""
    /\ pushLog.lastGet.result.value = DictOf(<< <<"a", JsonInt("1")>> >>)

(***************************************************************************)
(* main(): the parts of a tick, and the finally clause.                    *)
(***************************************************************************)
\* get_ran_prefix
NodeTypePrefix(node_name) == IF StartsWith(node_name, "cu") THEN "CU_" ELSE "DU_"

get_ran_prefix(node_name) == "RAN_"

RECURSIVE PrefixItems(_, _)
PrefixItems(items, prefix) ==
    IF items = <<>> THEN <<>>
    ELSE << <<prefix \o items[1][1], items[1][2]>> >> \o PrefixItems(Tail(items), prefix)

\* prefix_dict_keys: d.items() exists for a dict only.
prefix_dict_keys(d, prefix) ==
    IF IsDict(d) THEN Value(DictUpdate(<<>>, PrefixItems(d.dict, prefix)))
    ELSE Raise("AttributeError")

CombinedWithoutHost(cadvisor_metrics, prefixed_srsran_metrics, node_exporter_metrics) ==
    DictUpdate(DictUpdate(<<>>, cadvisor_metrics), prefixed_srsran_metrics)

CombinedWithoutRan(cadvisor_metrics, prefixed_srsran_metrics, node_exporter_metrics) ==
    DictUpdate(DictUpdate(<<>>, cadvisor_metrics), node_exporter_metrics)

\* combined_metrics after its three updates.
Combined(cadvisor_metrics, prefixed_srsran_metrics, node_exporter_metrics) ==
    IF node_exporter_metrics # <<>>
    THEN DictUpdate(DictUpdate(DictUpdate(<<>>, cadvisor_metrics),
                               prefixed_srsran_metrics),
                    node_exporter_metrics)
    ELSE DictUpdate(DictUpdate(<<>>, cadvisor_metrics), prefixed_srsran_metrics)

\* if args.duration and (time.time() - start_time) >= args.duration;
\* duration is <<>> for None and <<d>> for the number d.
DurationReached(duration, elapsed) ==
    duration # <<>> /\ duration[1] # 0 /\ elapsed >= duration[1]

\* max(0, args.interval - elapsed)
SleepTime(interval, elapsed) == IF interval - elapsed > 0 THEN interval - elapsed ELSE 0

StopLeavesOpen(conns) == conns

\* MetricsCollector.stop: ws.close() on every WebSocketApp.
stop(conns) == [i \in DOMAIN conns |-> <<conns[i][1], "closed">>]

\* DataWriter.close: the files it closes.
close(open_files) == open_files

(***************************************************************************)
(* main() with its WebSocket threads.  The clock counts seconds; a fetch   *)
(* that is answered takes none, one that fails takes MaxFetch.             *)
(***************************************************************************)
\* The body of parse_e2_nodes' loop for one entry, split at its colons.
ParseEntry(nodes, parts) ==
    IF Len(parts) >= 3
    THEN DictSet(nodes, parts[1],
                 [container |-> parts[2],
                  ws_url |-> Join(SubSeq(parts, 3, Len(parts)), ":")])
    ELSE nodes

RECURSIVE ParseEntries(_, _)
ParseEntries(entries, nodes) ==
    IF entries = <<>> THEN nodes
    ELSE ParseEntries(Tail(entries),
                      ParseEntry(nodes, Split(Strip(entries[1]), ":")))

parse_e2_nodes(nodes_str) == ParseEntries(Split(nodes_str, ","), <<>>)

\* main's e2_nodes, set when main starts.
e2_nodes == loop.e2_nodes

\* --e2-nodes naming two nodes, and with entries that lack a part.
TwoNodes == "cu:c1:h:1, du:c2:h:2"
EntityLists == {TwoNodes, "cu:c1, du:c2:h:2", "cu:c1"}

Durations == {<<>>} \cup {<<d>> : d \in 0..MaxDuration}
HostResponses == { <<"ok", "node_load1 0.5", 0>>, <<"Timeout", "", MaxFetch>> }
ContainerResponses == { <<"ok", "container_last_seen 8", 0>>,
                        <<"ConnectionError", "", MaxFetch>> }
\* --interval is left at its default, in seconds.
DefaultInterval == 1
MainMessages == {"{\"a\": 1}", "[1]"}

NewTick == [hostCalls |-> 0,
            cadvisorCalls |-> [n \in Nodes |-> 0],
            getCalls |-> [n \in Nodes |-> 0],
            writeCalls |-> [n \in Nodes |-> 0],
            records |-> [n \in Nodes |-> <<>>],
            sources |-> [n \in Nodes |-> None],
            host |-> <<>>,
            rowsBefore |-> [n \in Nodes |-> 0],
            startElapsed |-> 0]

MainStarts ==
    /\ previous_values = <<>>
    /\ calls = <<>>
    /\ IdleParse
    /\ IdleCollect
    /\ IdleWriter
    /\ IdlePush
    /\ IdleTools
    /\ mpc = "start"
    /\ stop_event = FALSE
    /\ collector_stop_event = FALSE
    /\ ws_connections = <<>>
    /\ loop = [start_time |-> 0, loop_start |-> 0, sample_count |-> 0, idx |-> 0,
               node_exporter_metrics |-> <<>>, wake |-> 0, exc |-> "",
               e2_nodes |-> <<>>]
    /\ closed_files = {}
    /\ tickLog = [ticks |-> 0, tick |-> NewTick, messages |-> 0,
                  attempts |-> [n \in Nodes |-> 0],
                  failures |-> [n \in Nodes |-> 0],
                  attemptAfterStop |-> FALSE]

\* main before its first statement, with a well-formed --e2-nodes.
InitMain ==
    /\ MainStarts
    /\ args \in [duration : Durations, interval : {DefaultInterval},
                 collect_node_exporter : BOOLEAN, e2_nodes : {TwoNodes}]

MainFrame == UNCHANGED <<convVars, parseVars, last, lastOk, raised, lastWrite, tz, toolVars,
                         srsran_lock, listener, getter, pushLog, args>>

\* The rows of data in a node's file.
DataRows(files_csv, node_name) ==
    IF RowsOf(files_csv, node_name) = <<>> THEN 0 ELSE Len(RowsOf(files_csv, node_name)) - 1

\* _ws_connections after _start_srsran_websocket for every node: each
\* thread is started and has not connected yet.
StartAll(nodes) == [i \in DOMAIN nodes |-> <<nodes[i][1], "starting">>]

\* main up to its loop: parse_e2_nodes, start_srsran_collection, the signal
\* handlers and start_time.
StartCollection ==
    /\ mpc = "start"
    /\ ws_connections' = StartAll(parse_e2_nodes(args.e2_nodes))
    /\ loop' = [loop EXCEPT !.start_time = now,
                            !.e2_nodes = parse_e2_nodes(args.e2_nodes)]
    /\ mpc' = "loop"
    /\ UNCHANGED <<previous_values, now, writerVars, latest_srsran_metrics, stop_event,
                   collector_stop_event, closed_files, tickLog>>
    /\ MainFrame

\* SIGINT or SIGTERM: signal_handler sets stop_event.
Signal ==
    /\ mpc \in {"loop", "entities", "tickend", "sleep"}
    /\ ~stop_event
    /\ stop_event' = TRUE
    /\ UNCHANGED <<previous_values, now, writerVars, latest_srsran_metrics, mpc,
                   collector_stop_event, ws_connections, loop, closed_files, tickLog>>
    /\ MainFrame

\* while not stop_event.is_set(): the event is set.
LoopExit ==
    /\ mpc = "loop"
    /\ stop_event
    /\ mpc' = "finally"
    /\ UNCHANGED <<previous_values, now, writerVars, latest_srsran_metrics, stop_event,
                   collector_stop_event, ws_connections, loop, closed_files, tickLog>>
    /\ MainFrame

\* The head of a tick: r is what collect_node_exporter_metrics returned
\* after dt, calls the number of calls made (0 when it is disabled).
TickStarted(r, dt, hostCalls) ==
    /\ previous_values' = r.state
    /\ now' = now + dt
    /\ loop' = [loop EXCEPT !.loop_start = now, !.idx = 1,
                            !.node_exporter_metrics = r.ret,
                            !.exc = IF r.raised THEN "Exception" ELSE ""]
    /\ mpc' = IF r.raised THEN "finally"
              ELSE IF e2_nodes = <<>> THEN "tickend" ELSE "entities"
    /\ tickLog' = [tickLog EXCEPT
                      !.ticks = @ + 1,
                      !.tick = [NewTick EXCEPT
                                   !.hostCalls = hostCalls,
                                   !.host = r.ret,
                                   !.rowsBefore = [n \in Nodes |-> DataRows(csv, n)],
                                   !.startElapsed = now - loop.start_time]]
    /\ UNCHANGED <<writerVars, latest_srsran_metrics, stop_event, collector_stop_event,
                   ws_connections, closed_files>>
    /\ MainFrame

TickStart(response) ==
    /\ mpc = "loop"
    /\ ~stop_event
    /\ loop.sample_count < MaxTicks
    /\ args.collect_node_exporter
    /\ TickStarted(collect_node_exporter_metrics(previous_values, response[1],
                                                 response[2], Num(now + response[3])),
                   response[3], 1)

TickStartWithoutHost ==
    /\ mpc = "loop"
    /\ ~stop_event
    /\ loop.sample_count < MaxTicks
    /\ ~args.collect_node_exporter
    /\ TickStarted([raised |-> FALSE, ret |-> <<>>, state |-> previous_values], 0, 0)

\* The body of the loop over e2_nodes for node_name, step by step; the
\* cAdvisor collection returned c after dt.
EntityFrame == UNCHANGED <<latest_srsran_metrics, stop_event, collector_stop_event,
                           ws_connections, closed_files, lastWrite, tz>>

\* An exception leaves the loop body for the finally clause.
EntityRaised(node_name, c, dt, exc, gets) ==
    /\ previous_values' = c.state
    /\ now' = now + dt
    /\ loop' = [loop EXCEPT !.exc = exc]
    /\ mpc' = "finally"
    /\ tickLog' = [tickLog EXCEPT !.tick.cadvisorCalls[node_name] = @ + 1,
                                  !.tick.getCalls[node_name] = @ + gets]
    /\ UNCHANGED <<files, headers_written, fieldnames, csv>>
    /\ EntityFrame
    /\ UNCHANGED <<convVars, parseVars, last, lastOk, raised, toolVars,
                   srsran_lock, listener, getter, pushLog, args>>

EntityWritten(node_name, c, dt, prefixed_srsran_metrics, combined_metrics, W) ==
    /\ previous_values' = c.state
    /\ now' = now + dt
    /\ files' = W.files
    /\ headers_written' = W.headers_written
    /\ fieldnames' = W.fieldnames
    /\ csv' = W.csv
    /\ loop' = [loop EXCEPT !.idx = @ + 1]
    /\ mpc' = IF loop.idx = Len(e2_nodes) THEN "tickend" ELSE "entities"
    /\ tickLog' = [tickLog EXCEPT !.tick.cadvisorCalls[node_name] = @ + 1,
                                  !.tick.getCalls[node_name] = @ + 1,
                                  !.tick.writeCalls[node_name] = @ + 1,
                                  !.tick.records[node_name] = combined_metrics,
                                  !.tick.sources[node_name] =
                                      [cadvisor_metrics |-> c.ret,
                                       prefixed_srsran_metrics |-> prefixed_srsran_metrics,
                                       node_exporter_metrics |-> loop.node_exporter_metrics]]
    /\ EntityFrame
    /\ UNCHANGED <<convVars, parseVars, last, lastOk, raised, toolVars,
                   srsran_lock, listener, getter, pushLog, args>>

EntityCombined(node_name, c, dt, prefixed_srsran_metrics, combined_metrics) ==
    EntityWritten(node_name, c, dt, prefixed_srsran_metrics, combined_metrics,
                  write_sample(Writer, node_name, loop.loop_start, combined_metrics))

EntityPrefixed(node_name, c, dt, p) ==
    IF p.exc # "" THEN EntityRaised(node_name, c, dt, p.exc, 1)
    ELSE EntityCombined(node_name, c, dt, p.value,
                        Combined(c.ret, p.value, loop.node_exporter_metrics))

EntityRead(node_name, c, dt, g) ==
    IF g.exc # "" THEN EntityRaised(node_name, c, dt, g.exc, 1)
    ELSE EntityPrefixed(node_name, c, dt,
                        prefix_dict_keys(g.value, get_ran_prefix(node_name)))

EntityCollected(node_name, c, dt) ==
    IF c.raised THEN EntityRaised(node_name, c, dt, "Exception", 0)
    ELSE EntityRead(node_name, c, dt,
                    get_srsran_metrics(latest_srsran_metrics, node_name))

ProcessEntity(response) ==
    /\ mpc = "entities"
    /\ EntityCollected(e2_nodes[loop.idx][1],
                       collect_cadvisor_metrics(previous_values,
                                                e2_nodes[loop.idx][2].container,
                                                response[1], response[2],
                                                Num(now + response[3])),
                       response[3])

LoopFrame == UNCHANGED <<previous_values, writerVars, latest_srsran_metrics, stop_event,
                         collector_stop_event, ws_connections, closed_files, tickLog>>

\* sample_count += 1, the duration check and the computation of sleep_time.
TickEnd ==
    /\ mpc = "tickend"
    /\ IF DurationReached(args.duration, now - loop.start_time)
       THEN /\ mpc' = "finally"
            /\ loop' = [loop EXCEPT !.sample_count = @ + 1]
       ELSE IF SleepTime(args.interval, now - loop.loop_start) > 0
       THEN /\ mpc' = "sleep"
            /\ loop' = [loop EXCEPT !.sample_count = @ + 1,
                                    !.wake = now + SleepTime(args.interval,
                                                             now - loop.loop_start)]
       ELSE /\ mpc' = "loop"
            /\ loop' = [loop EXCEPT !.sample_count = @ + 1]
    /\ UNCHANGED now
    /\ LoopFrame
    /\ MainFrame

\* stop_event.wait(sleep_time) runs to its timeout.
SleepTimeout ==
    /\ mpc = "sleep"
    /\ ~stop_event
    /\ now' = loop.wake
    /\ mpc' = "loop"
    /\ UNCHANGED loop
    /\ LoopFrame
    /\ MainFrame

\* stop_event.wait(sleep_time) returns at t because the event is set.
SleepCut(t) ==
    /\ mpc = "sleep"
    /\ stop_event
    /\ now' = t
    /\ mpc' = "loop"
    /\ UNCHANGED loop
    /\ LoopFrame
    /\ MainFrame

\* finally: collector.stop()
Stop ==
    /\ mpc = "finally"
    /\ collector_stop_event' = TRUE
    /\ ws_connections' = stop(ws_connections)
    /\ mpc' = "closing"
    /\ UNCHANGED <<previous_values, now, writerVars, latest_srsran_metrics, stop_event,
                   loop, closed_files, tickLog>>
    /\ MainFrame

\* finally: writer.close(), and the process exits.
Close ==
    /\ mpc = "closing"
    /\ closed_files' = close(files)
    /\ mpc' = "exited"
    /\ UNCHANGED <<previous_values, now, writerVars, latest_srsran_metrics, stop_event,
                   collector_stop_event, ws_connections, loop, tickLog>>
    /\ MainFrame

\* The thread of a node, inside ws.run_forever(): it lives as long as the
\* process does.
ThreadRuns(n, state) ==
    /\ mpc \notin {"start", "exited"}
    /\ DictHas(ws_connections, n)
    /\ DictGet(ws_connections, n) = state

ThreadFrame == UNCHANGED <<previous_values, now, writerVars, mpc, stop_event,
                           collector_stop_event, loop, closed_files>>

\* The connection is made: on_open sends the subscription.
Connect(n) ==
    /\ ThreadRuns(n, "starting")
    /\ ws_connections' = DictSet(ws_connections, n, "open")
    /\ tickLog' = [tickLog EXCEPT !.attempts[n] = @ + 1,
                                  !.attemptAfterStop = @ \/ stop_event]
    /\ UNCHANGED latest_srsran_metrics
    /\ ThreadFrame
    /\ MainFrame

\* The connection cannot be made: on_error, on_close, and run_forever
\* returns, which ends the thread.
ConnectFail(n) ==
    /\ ThreadRuns(n, "starting")
    /\ ws_connections' = DictSet(ws_connections, n, "ended")
    /\ tickLog' = [tickLog EXCEPT !.attempts[n] = @ + 1,
                                  !.failures[n] = @ + 1,
                                  !.attemptAfterStop = @ \/ stop_event]
    /\ UNCHANGED latest_srsran_metrics
    /\ ThreadFrame
    /\ MainFrame

\* The connection breaks or the peer closes it: on_close, and run_forever
\* returns, which ends the thread.
ConnLost(n) ==
    /\ ThreadRuns(n, "open")
    /\ ws_connections' = DictSet(ws_connections, n, "ended")
    /\ tickLog' = [tickLog EXCEPT !.failures[n] = @ + 1]
    /\ UNCHANGED latest_srsran_metrics
    /\ ThreadFrame
    /\ MainFrame

\* on_message: an exception of the handler is caught by the caller of the
\* callback and the connection goes on.
Message(n, message) ==
    /\ ThreadRuns(n, "open")
    /\ tickLog.messages < MaxPushed
    /\ latest_srsran_metrics' =
          on_srsran_message(latest_srsran_metrics, n, message).cache
    /\ tickLog' = [tickLog EXCEPT !.messages = @ + 1]
    /\ UNCHANGED ws_connections
    /\ ThreadFrame
    /\ MainFrame

NextMain ==
    \/ StartCollection
    \/ Signal
    \/ LoopExit
    \/ \E response \in HostResponses : TickStart(response)
    \/ TickStartWithoutHost
    \/ \E response \in ContainerResponses : ProcessEntity(response)
    \/ TickEnd
    \/ SleepTimeout
    \/ \E t \in now..loop.wake : SleepCut(t)
    \/ Stop
    \/ Close
    \/ \E n \in Nodes : Connect(n)
    \/ \E n \in Nodes : ConnectFail(n)
    \/ \E n \in Nodes : ConnLost(n)
    \/ \E n \in Nodes, message \in MainMessages : Message(n, message)

SpecMain == InitMain /\ [][NextMain]_vars

\* main started with any of the entity lists.
InitStartup ==
    /\ MainStarts
    /\ args \in [duration : Durations, interval : {DefaultInterval},
                 collect_node_exporter : BOOLEAN, e2_nodes : EntityLists]

SpecStartup == InitStartup /\ [][NextMain]_vars

\* The tick in progress or just finished, and what it has done so far.
InTick == tickLog.ticks > 0 /\ mpc \in {"entities", "tickend"}
HostPairsIn(record) ==
    \A i \in DOMAIN tickLog.tick.host :
        /\ DictHas(record, tickLog.tick.host[i][1])
        /\ DictGet(record, tickLog.tick.host[i][1]) = tickLog.tick.host[i][2]

\* C15: while collection has not been stopped a node's listener is alive,
\* connected or about to make its next connection attempt; it never is a
\* thread that has ended for good after a failure or a close.
C15_ListenerReconnects ==
    \A i \in DOMAIN ws_connections :
        (~stop_event /\ ~collector_stop_event) => ws_connections[i][2] # "ended"

\* C16: at the end of every tick each node's file has exactly one row more
\* than when the tick began, whatever the sources returned.
C16_OneRowPerNodePerTick ==
    mpc = "tickend" =>
        \A n \in Nodes : DataRows(csv, n) = tickLog.tick.rowsBefore[n] + 1

\* C17: when the process exits, by the stop signal, by the duration or by
\* an exception in a tick, every WebSocket connection has been closed and
\* every file the writer opened has been closed.
C17_ClosedBeforeExit ==
    mpc = "exited" =>
        /\ DictKeys(ws_connections) = Nodes
        /\ \A i \in DOMAIN ws_connections : ws_connections[i][2] = "closed"
        /\ closed_files = files

\* An exception ended a tick after a file was opened and while a connection
\* was open, and the process has exited.
C17_Witness ==
    /\ mpc = "exited"
    /\ loop.exc = "AttributeError"
    /\ files # {}
    /\ tickLog.attempts["cu"] = 1
    /\ tickLog.failures["cu"] = 0

\* C18: with a duration D configured, 0 included, no tick starts once the
\* time since start_time has reached D.
C18_NoTickOnceBudgetReached ==
    (tickLog.ticks > 0 /\ args.duration # <<>>) =>
        tickLog.tick.startElapsed < args.duration[1]

\* C19: there is one stop signal, the one the signal handler sets is the
\* one the collector holds, and no listener makes a connection attempt
\* once it is set.
C19_OneSharedStopSignal ==
    /\ stop_event => collector_stop_event
    /\ ~tickLog.attemptAfterStop

StreamingKeys(record) ==
    {k \in DictKeys(record) :
        ~StartsWith(k, "cAdvisor_") /\ ~StartsWith(k, "NodeExporter_")}

Malformed(nodes_str) ==
    \E i \in DOMAIN Split(nodes_str, ",") :
        Len(Split(Strip(Split(nodes_str, ",")[i]), ":")) < 3

\* C26: with a malformed entry in the entity list the process exits before
\* the first tick: no tick starts, no streaming connection is opened and no
\* log is written.
C26_MalformedEntityIsFatal ==
    Malformed(args.e2_nodes) =>
        /\ tickLog.ticks = 0
        /\ ws_connections = <<>>
        /\ files = {}

(***************************************************************************)
(* calculate_stats on its own: one call on a group of values.              *)
(***************************************************************************)
\* The values of a group: 0.1 and small even numbers.
StatValues == {FDivInt(FromInt(1), 10)} \cup {FromInt(2 * i) : i \in 1..MaxStat}
StatGroups == UNION {[1..k -> StatValues] : k \in 0..MaxGroup}

InitStats ==
    /\ previous_values = <<>>
    /\ calls = <<>>
    /\ IdleParse
    /\ IdleCollect
    /\ IdleWriter
    /\ IdlePush
    /\ IdleMain
    /\ stress = None
    /\ call \in {[values |-> values, done |-> FALSE, ret |-> <<>>] :
                    values \in StatGroups}

Stats ==
    /\ ~call.done
    /\ call' = [call EXCEPT !.done = TRUE,
                            !.ret = calculate_stats_binary64(call.values)]
    /\ UNCHANGED <<previous_values, convVars, parseVars, collectVars, writerVars,
                   pushVars, mainVars, stress>>

NextStats == Stats

SpecStats == InitStats /\ [][NextStats]_vars

\* C27: an empty group yields no key at all; a group of the single value v
\* yields avg = min = max = v and stddev = 0.
C27_EmptyAndSingleGroups ==
    call.done =>
        /\ call.values = <<>> => call.ret = <<>>
        /\ Len(call.values) = 1 =>
              call.ret = << <<"avg", call.values[1]>>, <<"min", call.values[1]>>,
                           <<"max", call.values[1]>>, <<"stddev", FZero>> >>

\* The statistics of the group [6.0].
C27_Witness ==
    /\ call.done
    /\ call.values = <<FromInt(6)>>
    /\ DictGet(call.ret, "avg") = FromInt(6)
    /\ DictGet(call.ret, "stddev") = FZero

\* C28: for a group of n >= 2 values avg is sum / n, min and max are the
\* smallest and the largest value with min <= avg <= max, and stddev >= 0
\* satisfies stddev^2 * (n - 1) = the sum of the squared deviations from avg;
\* [2, 4, 6] gives avg 4, min 2, max 6 and stddev 2.
StatsAsClaimed(values, n, avg, min, max, stddev) ==
    /\ avg = FDivInt(FSum(values, FZero), n)
    /\ \E i \in DOMAIN values : min = values[i]
    /\ \E i \in DOMAIN values : max = values[i]
    /\ \A i \in DOMAIN values : FLe(min, values[i]) /\ FLe(values[i], max)
    /\ FLe(min, avg)
    /\ FLe(avg, max)
    /\ FLe(FZero, stddev)
    /\ FMul(FMul(stddev, stddev), FromInt(n - 1)) =
          FSum(SquaredDeviations(values, avg), FZero)
    /\ values = <<FromInt(2), FromInt(4), FromInt(6)>> =>
          /\ avg = FromInt(4)
          /\ min = FromInt(2)
          /\ max = FromInt(6)
          /\ stddev = FromInt(2)

C28_StatsOfTwoOrMore ==
    (call.done /\ Len(call.values) >= 2) =>
        StatsAsClaimed(call.values, Len(call.values), DictGet(call.ret, "avg"),
                       DictGet(call.ret, "min"), DictGet(call.ret, "max"),
                       DictGet(call.ret, "stddev"))

(***************************************************************************)
(* generate_stress.py: the scenarios, the applicator and the tracker.      *)
(* Time is in whole seconds.  An event is the time, the container and the  *)
(* type of a stress; its quantity and its length are left out.             *)
(***************************************************************************)
StressTypes == <<"cpu", "memory", "io", "network_loss", "network_latency", "disk">>
StressContainers == <<"srscu0", "srsdu0">>

\* The probabilities, in percent: those of the command line's defaults, a
\* choice of two types, and none.
ProbabilitySets == { <<30, 20, 15, 10, 15, 10>>, <<50, 0, 0, 50, 0, 0>>,
                     <<0, 0, 0, 0, 0, 0>> }

RECURSIVE SumOf(_)
SumOf(weights) == IF weights = <<>> THEN 0 ELSE weights[1] + SumOf(Tail(weights))

\* StressProbabilities.normalize
normalize(probabilities) ==
    IF SumOf(probabilities) = 0 THEN <<>>
    ELSE [i \in DOMAIN StressTypes |->
             <<StressTypes[i], Rat(probabilities[i], SumOf(probabilities))>>]

\* What random.choices(stress_types, weights=weights, k=1)[0] can return.
Choices(normalized_probs) ==
    {normalized_probs[i][1] : i \in {j \in DOMAIN normalized_probs :
                                        RLt(Num(0), normalized_probs[j][2])}}

\* pattern[i] of the code is traffic_pattern[i + 1] here.
get_traffic_slope(pattern, slice_index) ==
    IF slice_index <= 0 \/ slice_index >= Len(pattern) THEN 0
    ELSE pattern[slice_index + 1] - pattern[slice_index]

is_nonnegative_slope(pattern, slice_index) == get_traffic_slope(pattern, slice_index) >= 0

is_positive_slope(pattern, slice_index) == get_traffic_slope(pattern, slice_index) > 0

\* current_slice: int(elapsed / slice_duration), at most num_slices - 1,
\* where slice_duration is duration / num_slices, or duration without slices.
SliceQuotient(elapsed, duration, num_slices) ==
    IF duration <= 0 THEN 0
    ELSE IF num_slices > 0 THEN (elapsed * num_slices) \div duration
    ELSE elapsed \div duration
current_slice(elapsed, duration, num_slices) ==
    IF SliceQuotient(elapsed, duration, num_slices) < num_slices - 1
    THEN SliceQuotient(elapsed, duration, num_slices)
    ELSE num_slices - 1

StressEvent(timestamp, container, stress_type) ==
    [timestamp |-> timestamp, container |-> container, stress_type |-> stress_type]

to_dict(event) ==
    [timestamp |-> isoformat(event.timestamp), timestamp_unix |-> event.timestamp,
     container |-> event.container, stress_type |-> event.stress_type]

\* sequential_stress: stress_duration and rest_duration, in seconds.
DefaultStressDuration == 30
DefaultRestDuration == 10

TrafficPatterns == UNION {[1..k -> 1..MaxLevel] : k \in 0..MaxSlices}
StressRuns ==
    {[scenario |-> "traffic_aware", traffic_pattern |-> p, probabilities |-> pr,
      duration |-> d] :
        p \in TrafficPatterns, pr \in ProbabilitySets, d \in 1..MaxRun}
    \cup {[scenario |-> sc, traffic_pattern |-> <<>>,
           probabilities |-> <<0, 0, 0, 0, 0, 0>>, duration |-> d] :
             sc \in {"random", "sequential"}, d \in 1..MaxRun}

\* main before the scenario starts: the tracker's file holds its header only.
InitStress ==
    /\ previous_values = <<>>
    /\ calls = <<>>
    /\ IdleParse
    /\ IdleCollect
    /\ IdleWriter
    /\ IdlePush
    /\ IdleMain
    /\ call = None
    /\ stress \in {[run |-> run, pc |-> "start", time |-> 0, start_time |-> 0,
                    stop_event |-> FALSE, method |-> 1, container |-> 1,
                    event |-> None, applied |-> <<>>, active |-> <<>>,
                    rows |-> <<>>] : run \in StressRuns}

StressFrame == UNCHANGED <<previous_values, convVars, parseVars, collectVars, writerVars,
                           pushVars, mainVars, call>>

Elapsed == stress.time - stress.start_time

\* The scenario function up to its loop.
StartScenario ==
    /\ stress.pc = "start"
    /\ stress' = [stress EXCEPT
                     !.start_time = stress.time,
                     !.pc = IF stress.run.scenario = "sequential" THEN "apply"
                            ELSE IF /\ stress.run.scenario = "traffic_aware"
                                    /\ normalize(stress.run.probabilities) = <<>>
                            THEN "finally"
                            ELSE "loop"]
    /\ StressFrame

\* event = stress_func(container, stress_dur); tracker.record_event(event)
Recorded(s, event) ==
    [s EXCEPT !.applied = Append(@, event),
              !.active = Append(@, event),
              !.rows = Append(@, to_dict(event)),
              !.pc = "wait"]

InLoop(scenario) ==
    /\ stress.pc = "loop"
    /\ stress.run.scenario = scenario
    /\ ~stress.stop_event
    /\ Elapsed < stress.run.duration

\* One pass of traffic_aware_stress' loop, up to its wait.
TrafficAwareIteration(selected_type, container) ==
    /\ InLoop("traffic_aware")
    /\ selected_type \in Choices(normalize(stress.run.probabilities))
    /\ stress' =
          IF is_positive_slope(stress.run.traffic_pattern,
                               current_slice(Elapsed, stress.run.duration,
                                             Len(stress.run.traffic_pattern)))
          THEN Recorded(stress, StressEvent(stress.time, container, selected_type))
          ELSE [stress EXCEPT !.pc = "wait"]
    /\ StressFrame

\* One pass of random_stress' loop, up to its wait.
RandomIteration(stress_type, container) ==
    /\ InLoop("random")
    /\ stress' = Recorded(stress, StressEvent(stress.time, container, stress_type))
    /\ StressFrame

\* stop_event.wait(min(interval, duration - elapsed)) times out.
Wait(interval) ==
    /\ stress.pc = "wait"
    /\ stress' = [stress EXCEPT
                     !.time = @ + (IF interval < stress.run.duration - Elapsed
                                   THEN interval ELSE stress.run.duration - Elapsed),
                     !.pc = "loop"]
    /\ StressFrame

\* SIGINT or SIGTERM in a scenario that has installed signal_handler: the
\* event is set, and a wait in progress returns.
StressSignal ==
    /\ stress.run.scenario # "sequential"
    /\ stress.pc \in {"loop", "wait"}
    /\ ~stress.stop_event
    /\ stress' = [stress EXCEPT !.stop_event = TRUE, !.pc = "loop"]
    /\ StressFrame

\* The while condition is false.
StressLoopExit ==
    /\ stress.pc = "loop"
    /\ stress.stop_event \/ Elapsed >= stress.run.duration
    /\ stress' = [stress EXCEPT !.pc = "finally"]
    /\ StressFrame

\* sequential_stress, stress_func(container) up to the end of its docker
\* exec: the event exists and the stress is in place in the container.
SequentialApply ==
    /\ stress.pc = "apply"
    /\ stress' = [stress EXCEPT
                     !.event = StressEvent(stress.time,
                                           StressContainers[stress.container],
                                           StressTypes[stress.method]),
                     !.applied = Append(@, StressEvent(stress.time,
                                                       StressContainers[stress.container],
                                                       StressTypes[stress.method])),
                     !.pc = "applied"]
    /\ StressFrame

\* The rest of stress_func(container), and tracker.record_event(event).
SequentialRecord ==
    /\ stress.pc = "applied"
    /\ stress' = [stress EXCEPT
                     !.active = Append(@, stress.event),
                     !.rows = Append(@, to_dict(stress.event)),
                     !.event = None,
                     !.container = IF @ = Len(StressContainers) THEN 1 ELSE @ + 1,
                     !.pc = IF stress.container = Len(StressContainers)
                            THEN "sleep" ELSE "apply"]
    /\ StressFrame

\* time.sleep(stress_duration + rest_duration), and the next method.
SequentialSleep ==
    /\ stress.pc = "sleep"
    /\ stress' = [stress EXCEPT
                     !.time = @ + DefaultStressDuration + DefaultRestDuration,
                     !.method = @ + 1,
                     !.pc = IF stress.method = Len(StressTypes) THEN "finally"
                            ELSE "apply"]
    /\ StressFrame

\* SIGINT in sequential_stress, which installs no handler: KeyboardInterrupt
\* is raised where the scenario is, and main's except clause catches it.
KeyboardInterrupt ==
    /\ stress.run.scenario = "sequential"
    /\ stress.pc \in {"apply", "applied", "sleep"}
    /\ stress' = [stress EXCEPT !.pc = "finally"]
    /\ StressFrame

\* main's finally: applicator.cleanup_all() and tracker.close().
StressFinally ==
    /\ stress.pc = "finally"
    /\ stress' = [stress EXCEPT !.active = <<>>, !.pc = "done"]
    /\ StressFrame

NextStress ==
    \/ StartScenario
    \/ \E t \in DOMAIN StressTypes, c \in DOMAIN StressContainers :
          TrafficAwareIteration(StressTypes[t], StressContainers[c])
    \/ \E t \in DOMAIN StressTypes, c \in DOMAIN StressContainers :
          RandomIteration(StressTypes[t], StressContainers[c])
    \/ \E interval \in 1..MaxInterval : Wait(interval)
    \/ StressSignal
    \/ StressLoopExit
    \/ SequentialApply
    \/ SequentialRecord
    \/ SequentialSleep
    \/ KeyboardInterrupt
    \/ StressFinally

SpecStress == InitStress /\ [][NextStress]_vars

\* The time t after the start lies in slice i of the pattern.
InSlice(t, i) ==
    /\ i * stress.run.duration <= t * Len(stress.run.traffic_pattern)
    /\ t * Len(stress.run.traffic_pattern) < (i + 1) * stress.run.duration

C30_EveryAppliedStressRecorded ==
    stress.pc = "done" =>
        stress.rows = [k \in DOMAIN stress.applied |-> to_dict(stress.applied[k])]

(***************************************************************************)
(* The push cache as the tick reads it.                                    *)
(***************************************************************************)
\* C34: every value in the push cache is a mapping, and a read of the
\* cache followed by the prefixing of its keys raises nothing.
C34_CachedValuesAreMappings ==
    /\ \A n \in Nodes :
          DictHas(latest_srsran_metrics, n) => IsDict(DictGet(latest_srsran_metrics, n))
    /\ pushLog.lastGet # None =>
          /\ pushLog.lastGet.result.exc = ""
          /\ prefix_dict_keys(pushLog.lastGet.result.value,
                              get_ran_prefix(pushLog.lastGet.node)).exc = ""

(***************************************************************************)
(* The merge of the three sources in main.                                 *)
(***************************************************************************)
\* merged holds every item of part, with part's value.
Contributes(part, merged) ==
    \A k \in DictKeys(part) : DictHas(merged, k) /\ DictGet(merged, k) = DictGet(part, k)

DisjointUnion(merged, a, b, c) ==
    /\ DictKeys(a) \cap DictKeys(b) = {}
    /\ DictKeys(a) \cap DictKeys(c) = {}
    /\ DictKeys(b) \cap DictKeys(c) = {}
    /\ DictKeys(merged) = DictKeys(a) \cup DictKeys(b) \cup DictKeys(c)
    /\ Len(merged) = Len(a) + Len(b) + Len(c)
    /\ Contributes(a, merged)
    /\ Contributes(b, merged)
    /\ Contributes(c, merged)

\* C36: the record merged for a node in a tick has, as its keys, the
\* disjoint union of the keys of the container-level record, of the
\* prefixed push-cache record and of the host-level record, each with the
\* value its source gave it.
C36_MergedIsDisjointUnion ==
    \A n \in Nodes :
        tickLog.tick.sources[n] # None =>
            DisjointUnion(tickLog.tick.records[n],
                          tickLog.tick.sources[n].cadvisor_metrics,
                          tickLog.tick.sources[n].prefixed_srsran_metrics,
                          tickLog.tick.sources[n].node_exporter_metrics)

\* A tick in which each of the three sources gave du a value.
C36_Witness ==
    /\ tickLog.tick.sources["du"] # None
    /\ tickLog.tick.sources["du"].cadvisor_metrics # <<>>
    /\ tickLog.tick.sources["du"].prefixed_srsran_metrics # <<>>
    /\ tickLog.tick.sources["du"].node_exporter_metrics # <<>>
    /\ Len(tickLog.tick.records["du"]) = 3

(***************************************************************************)
(* The keys of the pull collectors: of the record and of the rate state.   *)
(***************************************************************************)
\* The rate-state key of the device b sample of SameNameBlob for a container.
DeviceBKey(container_name) ==
    "cAdvisor_" \o container_name \o "_" \o SameNameCounter \o "_{'device': 'b'}"

SameNameValues == { <<"3", Num(3)>>, <<"9", Num(9)>> }

\* Collections of every container and of the host that all succeed, on
\* samples that share names within a response and across containers.
NextKeys ==
    \E dt \in 1..MaxDt :
        \/ \E blob \in NodeExporterBlobs \cup {NodeSameNameBlob} :
              CollectNodeExporter("ok", blob, dt)
        \/ \E c \in Containers, v \in SameNameValues :
              CollectCadvisor(c, "ok", SameNameBlob(v[1]), dt)

SpecKeys == InitCollect /\ [][NextKeys]_vars

\* C33: of the two gauge samples that share a name and differ in a label
\* the record holds one key, the name with the source's prefix, and its
\* value is that of the second sample; of the two counter samples it
\* holds one key, the name with _rate, whose value is the rate of the
\* second sample.
C33_SameNameLastSampleWins ==
    /\ (LastIs("node_exporter", {"ok"}) /\ last.text = NodeSameNameBlob) =>
          last.ret = << <<"NodeExporter_" \o NodeSameNameGauge, Num(9)>> >>
    /\ \A v \in SameNameValues :
          (LastIs("cadvisor", {"ok"}) /\ last.text = SameNameBlob(v[1])) =>
              /\ DictKeys(last.ret) \subseteq
                    {"cAdvisor_" \o SameNameGauge, "cAdvisor_" \o SameNameCounter \o "_rate"}
              /\ DictHas(last.ret, "cAdvisor_" \o SameNameGauge)
              /\ DictGet(last.ret, "cAdvisor_" \o SameNameGauge) = Num(9)
              /\ DictHas(last.ret, "cAdvisor_" \o SameNameCounter \o "_rate")
                    = DictHas(last.pre, DeviceBKey(last.container))
              /\ DictHas(last.pre, DeviceBKey(last.container)) =>
                    DictGet(last.ret, "cAdvisor_" \o SameNameCounter \o "_rate") =
                        RDiv(RSub(v[2], DictGet(last.pre, DeviceBKey(last.container))[1]),
                             RSub(Num(last.ts),
                                  DictGet(last.pre, DeviceBKey(last.container))[2]))

\* The second collection of the samples for c1: the rate of the device b
\* sample, (9 - 3) / 1, is in the record and that of device a, 0, is not.
C33_Witness ==
    /\ LastIs("cadvisor", {"ok"})
    /\ last.container = "c1"
    /\ last.text = SameNameBlob("9")
    /\ last.ret = << <<"cAdvisor_" \o SameNameGauge, Num(9)>>,
                     <<"cAdvisor_" \o SameNameCounter \o "_rate", Num(6)>> >>

\* The prefix of the rate-state keys a collection is to use.
OwnPrefix(source, container_name) ==
    IF source = "cadvisor" THEN "cAdvisor_" \o container_name \o "_" ELSE "NodeExporter_"

\* The items of the rate state whose keys have the prefix.
RECURSIVE Own(_, _)
Own(state, prefix) ==
    IF state = <<>> THEN <<>>
    ELSE IF StartsWith(state[1][1], prefix) THEN <<state[1]>> \o Own(Tail(state), prefix)
    ELSE Own(Tail(state), prefix)

\* The collection c made again, on the rate state prev.
Again(c, prev) ==
    IF c.source = "cadvisor"
    THEN collect_cadvisor_metrics(prev, c.container, c.outcome, c.text, Num(c.ts))
    ELSE collect_node_exporter_metrics(prev, c.outcome, c.text, Num(c.ts))

SameAsAlone(alone, ret, state) == alone.ret = ret /\ alone.state = state

\* C35: a collection leaves every rate-state key of another container or
\* source as it was, and returns the record and leaves the own keys it
\* would have with no key of another container or source in the state.
C35_RateStateIsolated ==
    last # None =>
        /\ \A k \in DictKeys(last.pre) \cup DictKeys(previous_values) :
              ~StartsWith(k, OwnPrefix(last.source, last.container)) =>
                  SameEntry(last.pre, previous_values, k)
        /\ SameAsAlone(Again(last, Own(last.pre, OwnPrefix(last.source, last.container))),
                       last.ret,
                       Own(previous_values, OwnPrefix(last.source, last.container)))

\* c1 sees the counter at 3, c2 sees it at 9, c1 sees it at 9: the rate
\* for c1 is (9 - 3) / 2, as set by c1's own first observation.
C35_Witness ==
    /\ LastIs("cadvisor", {"ok"})
    /\ last.container = "c1"
    /\ last.text = SameNameBlob("9")
    /\ DictHas(last.pre, DeviceBKey("c2"))
    /\ DictGet(last.pre, DeviceBKey("c2")) = <<Num(9), Num(2)>>
    /\ DictHas(last.pre, DeviceBKey("c1"))
    /\ DictGet(last.pre, DeviceBKey("c1")) = <<Num(3), Num(1)>>
    /\ DictGet(last.ret, "cAdvisor_" \o SameNameCounter \o "_rate") = Num(3)

(***************************************************************************)
(* The ticks of main for one entity, cu in container c1, with the host     *)
(* source and no WebSocket message: each tick collects the host, collects  *)
(* the container, merges and writes, then sleeps to the next second.       *)
(***************************************************************************)
MaxRateTicks == 2

EndsWith(s, suffix) ==
    Len(suffix) <= Len(s) /\ SubSeq(s, Len(s) - Len(suffix) + 1, Len(s)) = suffix

\* A host response that holds a counter and no gauge.
CounterOnlyBlob == "node_intr_total 30"
RateHostResponses ==
    {<<"ok", blob, 0>> : blob \in NodeExporterBlobs \cup {CounterOnlyBlob}}
        \cup {<<"Timeout", "", MaxFetch>>}
RateContainerResponses ==
    {<<"ok", LabelledBlob("3"), 0>>, <<"ok", LabelledBlob("9"), 0>>,
     <<"ConnectionError", "", MaxFetch>>}

InitRates ==
    /\ previous_values = <<>>
    /\ calls = <<>>
    /\ IdleParse
    /\ now = 0
    /\ last = [ticks |-> 0, ok |-> {}, first |-> None]
    /\ lastOk = <<>>
    /\ raised = FALSE
    /\ IdleWriter
    /\ IdlePush
    /\ IdleMain
    /\ IdleTools

\* The sources of a tick whose collection gave a record.
OkSources(host, container) ==
    (IF host[1] = "ok" THEN {"node_exporter"} ELSE {})
        \cup (IF container[1] = "ok" THEN {"cadvisor"} ELSE {})

\* The later of the end of the tick's work and the end of its interval.
NextWake(loop_start, finished) ==
    IF finished - loop_start < DefaultInterval THEN loop_start + DefaultInterval ELSE finished

\* The end of a tick whose collections returned h and c: combined_metrics
\* is merged and written, W being the writer after the write.
RateTickWritten(ok, c, finished, combined_metrics, W) ==
    /\ previous_values' = c.state
    /\ files' = W.files
    /\ headers_written' = W.headers_written
    /\ fieldnames' = W.fieldnames
    /\ csv' = W.csv
    /\ lastWrite' = [node |-> "cu", timestamp |-> now, metrics |-> combined_metrics,
                     pre |-> Writer]
    /\ last' = [ticks |-> last.ticks + 1,
                ok |-> last.ok \cup ok,
                first |-> IF last.first = None /\ combined_metrics # <<>>
                          THEN [metrics |-> combined_metrics,
                                fresh |-> ok \cap last.ok = {}]
                          ELSE last.first]
    /\ now' = NextWake(now, finished)
    /\ UNCHANGED <<convVars, parseVars, lastOk, raised, tz, pushVars, mainVars, toolVars>>

RateTickMerged(ok, c, finished, combined_metrics) ==
    RateTickWritten(ok, c, finished, combined_metrics,
                    write_sample(Writer, "cu", now, combined_metrics))

RateTickCollected(ok, h, c, finished) ==
    RateTickMerged(ok, c, finished,
                   Combined(c.ret,
                            prefix_dict_keys(get_srsran_metrics(<<>>, "cu").value,
                                             get_ran_prefix("cu")).value,
                            h.ret))

RateTickHost(host, container, h) ==
    RateTickCollected(OkSources(host, container), h,
                      collect_cadvisor_metrics(h.state, "c1", container[1], container[2],
                                               Num(now + host[3] + container[3])),
                      now + host[3] + container[3])

RateTick(host, container) ==
    /\ last.ticks < MaxRateTicks
    /\ RateTickHost(host, container,
                    collect_node_exporter_metrics(previous_values, host[1], host[2],
                                                  Num(now + host[3])))

NextRates ==
    \E host \in RateHostResponses, container \in RateContainerResponses :
        RateTick(host, container)

SpecRates == InitRates /\ [][NextRates]_vars

HasRateKey(metrics_) == \E k \in DictKeys(metrics_) : EndsWith(k, "_rate")

MaxEvents == 2
MaxNetDuration == 2
MaxNetTime == 3

NetworkStressTypes == {"network_loss", "network_latency", "network_bandwidth"}
NetContainers == {StressContainers[i] : i \in DOMAIN StressContainers}

\* No rule on the interface; a rule is held as the set of its event's index.
NoRule == {}

InitNetem ==
    /\ previous_values = <<>>
    /\ calls = <<>>
    /\ IdleParse
    /\ IdleCollect
    /\ IdleWriter
    /\ IdlePush
    /\ IdleMain
    /\ call = None
    /\ stress = [time |-> 0,
                 qdisc |-> [c \in NetContainers |-> NoRule],
                 events |-> <<>>,
                 sleeping |-> {},
                 active |-> <<>>,
                 cleaned |-> FALSE]

\* tc qdisc add dev <interface> root ...: the rule of event id.
TcAdd(qdisc, container, id) ==
    IF qdisc[container] = NoRule THEN [qdisc EXCEPT ![container] = {id}] ELSE qdisc

\* tc qdisc del dev <interface> root
TcDel(qdisc, container) == [qdisc EXCEPT ![container] = NoRule]

\* apply_network_loss, apply_network_latency, apply_network_bandwidth.
ApplyNetwork(container, stress_type, duration) ==
    /\ ~stress.cleaned
    /\ Len(stress.events) < MaxEvents
    /\ stress' = [stress EXCEPT
          !.events = Append(@, [timestamp |-> stress.time, container |-> container,
                                stress_type |-> stress_type, duration |-> duration,
                                installed |-> stress.qdisc[container] = NoRule]),
          !.qdisc = TcAdd(@, container, Len(stress.events) + 1),
          !.sleeping = @ \cup {Len(stress.events) + 1},
          !.active = Append(@, Len(stress.events) + 1)]
    /\ StressFrame

\* The end of the sleep of event id's thread.
WakeTime(id) == stress.events[id].timestamp + stress.events[id].duration

\* remove_rule after its sleep.
RemoveRule(id) ==
    /\ id \in stress.sleeping
    /\ WakeTime(id) <= stress.time
    /\ stress' = [stress EXCEPT !.qdisc = TcDel(@, stress.events[id].container),
                                !.sleeping = @ \ {id}]
    /\ StressFrame

RECURSIVE CleanupRules(_, _, _)
CleanupRules(qdisc, events, active) ==
    IF active = <<>> THEN qdisc
    ELSE CleanupRules(TcDel(qdisc, events[active[1]].container), events, Tail(active))

\* cleanup_all
CleanupAll ==
    /\ ~stress.cleaned
    /\ stress' = [stress EXCEPT !.qdisc = CleanupRules(@, stress.events, stress.active),
                                !.active = <<>>,
                                !.cleaned = TRUE]
    /\ StressFrame

\* A second passes; a thread whose sleep has ended runs first.
NetSecond ==
    /\ stress.time < MaxNetTime
    /\ \A id \in stress.sleeping : stress.time < WakeTime(id)
    /\ stress' = [stress EXCEPT !.time = @ + 1]
    /\ StressFrame

NextNetem ==
    \/ \E container \in NetContainers, stress_type \in NetworkStressTypes,
          duration \in 1..MaxNetDuration : ApplyNetwork(container, stress_type, duration)
    \/ \E id \in 1..MaxEvents : RemoveRule(id)
    \/ CleanupAll
    \/ NetSecond

SpecNetem == InitNetem /\ [][NextNetem]_vars

\* C39: the rule that an event's tc qdisc add installed is on the
\* container's interface from the event's timestamp until the event's
\* duration has elapsed or cleanup_all has run.
C39_RuleStaysForItsDuration ==
    \A id \in DOMAIN stress.events :
        ( /\ stress.events[id].installed
          /\ ~stress.cleaned
          /\ stress.time < WakeTime(id) )
        => stress.qdisc[stress.events[id].container] = {id}

(***************************************************************************)
(* generate_traffic.py: TrafficGenerator.generate_traffic in the main      *)
(* thread, the iperf3 processes it starts, stop() called by another        *)
(* thread, and main's signal handler, which calls stop() and sys.exit.     *)
(***************************************************************************)
\* --ue-ips, at its default.
ue_ips == <<"10.45.0.2", "10.45.0.3">>

\* Patterns of up to MaxSlices slices.
SlicePatterns == UNION {[1..k -> {MaxLevel}] : k \in 0..MaxSlices}

InitTraffic ==
    /\ previous_values = <<>>
    /\ calls = <<>>
    /\ IdleParse
    /\ IdleCollect
    /\ IdleWriter
    /\ IdlePush
    /\ IdleMain
    /\ stress = None
    /\ call \in {[pattern |-> pattern, pc |-> "start", slice_index |-> 0, ue |-> 0,
                   slice_processes |-> <<>>, processes |-> <<>>, stop_event |-> FALSE,
                   popen |-> <<>>, running |-> {}, started |-> 0,
                   slices |-> <<>>, clients |-> <<>>, stopper |-> "idle"] :
                    pattern \in SlicePatterns}

TrafficFrame == UNCHANGED <<previous_values, convVars, parseVars, collectVars, writerVars,
                            pushVars, mainVars, stress>>

\* generate_traffic up to its loop.
GenerateTraffic ==
    /\ call.pc = "start"
    /\ call' = [call EXCEPT !.pc = IF call.pattern = <<>> THEN "returned" ELSE "loop"]
    /\ TrafficFrame

MayStartSliceAfterStop(is_set, slice_index, num_slices) == slice_index < num_slices

\* while not self._stop_event.is_set() and slice_index < num_slices
MayStartSlice(is_set, slice_index, num_slices) ==
    ~is_set /\ slice_index < num_slices

\* The head of the loop body; slices keeps, for every slice started, its
\* index and whether the stop event was set.
SliceBegin ==
    /\ call.pc = "loop"
    /\ MayStartSlice(call.stop_event, call.slice_index, Len(call.pattern))
    /\ call' = [call EXCEPT !.pc = "launch", !.ue = 1, !.slice_processes = <<>>,
                            !.slices = Append(@, <<call.slice_index, call.stop_event>>)]
    /\ TrafficFrame

TrafficLoopExit ==
    /\ call.pc = "loop"
    /\ ~MayStartSlice(call.stop_event, call.slice_index, Len(call.pattern))
    /\ call' = [call EXCEPT !.pc = "finally"]
    /\ TrafficFrame

\* The for loop over ue_ips after the client of call.ue.
AfterClient == IF call.ue = Len(ue_ips) THEN "wait" ELSE "launch"

\* _run_iperf_client: subprocess.Popen starts the process, or fails and
\* None is returned.
RunIperfClient(ok) ==
    /\ call.pc = "launch"
    /\ call' = [call EXCEPT
          !.clients = Append(@, <<call.slice_index, call.ue>>),
          !.started = IF ok THEN @ + 1 ELSE @,
          !.popen = IF ok THEN <<call.started + 1>> ELSE <<>>,
          !.running = IF ok THEN @ \cup {call.started + 1} ELSE @,
          !.pc = IF ok THEN "append" ELSE AfterClient,
          !.ue = IF ok THEN @ ELSE @ + 1]
    /\ TrafficFrame

\* slice_processes.append(process); self._processes.append(process)
AppendProcess ==
    /\ call.pc = "append"
    /\ call' = [call EXCEPT
          !.slice_processes = @ \o call.popen,
          !.processes = @ \o call.popen,
          !.popen = <<>>,
          !.pc = AfterClient,
          !.ue = @ + 1]
    /\ TrafficFrame

\* self._stop_event.wait(remaining) returns, at its timeout or because the
\* event is set.
SliceWait ==
    /\ call.pc = "wait"
    /\ call' = [call EXCEPT !.pc = "cleanup"]
    /\ TrafficFrame

\* terminate(), wait(timeout=5) and kill() on each process of the list
\* that is running.
Terminated(running, processes) ==
    running \ {processes[k] : k \in DOMAIN processes}

\* Clean up slice processes; slice_index += 1
SliceCleanup ==
    /\ call.pc = "cleanup"
    /\ call' = [call EXCEPT !.running = Terminated(@, call.slice_processes),
                            !.slice_index = @ + 1,
                            !.pc = "loop"]
    /\ TrafficFrame

\* An iperf3 process ends by itself.
ProcessExits(id) ==
    /\ id \in call.running
    /\ call' = [call EXCEPT !.running = @ \ {id}]
    /\ TrafficFrame

\* TrafficGenerator.stop
stop_traffic(g) ==
    [g EXCEPT !.stop_event = TRUE,
              !.running = Terminated(@, g.processes),
              !.processes = <<>>]

\* The finally clause of generate_traffic.
TrafficFinally ==
    /\ call.pc = "finally"
    /\ call' = [stop_traffic(call) EXCEPT !.pc = "returned"]
    /\ TrafficFrame

InTraffic == call.pc \in {"loop", "launch", "append", "wait", "cleanup", "finally"}

\* stop() called by another thread, statement by statement.
StopSet ==
    /\ InTraffic
    /\ call.stopper = "idle"
    /\ call' = [call EXCEPT !.stop_event = TRUE, !.stopper = "terminate"]
    /\ TrafficFrame

StopTerminate ==
    /\ call.stopper = "terminate"
    /\ call' = [call EXCEPT !.running = Terminated(@, call.processes),
                            !.stopper = "clear"]
    /\ TrafficFrame

StopClear ==
    /\ call.stopper = "clear"
    /\ call' = [call EXCEPT !.processes = <<>>, !.stopper = "done"]
    /\ TrafficFrame

\* main's signal_handler in the main thread: generator.stop(), then
\* sys.exit(0), whose SystemExit leaves generate_traffic by its finally
\* clause.
TrafficSignal ==
    /\ InTraffic
    /\ call' = [stop_traffic(stop_traffic(call)) EXCEPT !.pc = "exited"]
    /\ TrafficFrame

NextTraffic ==
    \/ GenerateTraffic
    \/ SliceBegin
    \/ TrafficLoopExit
    \/ \E ok \in BOOLEAN : RunIperfClient(ok)
    \/ AppendProcess
    \/ SliceWait
    \/ SliceCleanup
    \/ \E id \in 1..(MaxSlices * Len(ue_ips)) : ProcessExits(id)
    \/ TrafficFinally
    \/ StopSet
    \/ StopTerminate
    \/ StopClear
    \/ TrafficSignal

SpecTraffic == InitTraffic /\ [][NextTraffic]_vars

\* The k-th client of a run: slices in index order, in each the UEs in
\* the order of ue_ips.
ClientAt(k) == <<(k - 1) \div Len(ue_ips), ((k - 1) % Len(ue_ips)) + 1>>

\* C31: the slices started are 0, 1, ... in this order, at most
\* len(pattern) of them, none started with the stop event set; the
\* clients launched are one per UE for each slice, in slice order; when
\* generate_traffic has returned no process it started is running and the
\* process list is empty; with an empty pattern nothing is started.
C31_SlicesInOrderNothingLeftRunning ==
    /\ Len(call.slices) <= Len(call.pattern)
    /\ call.slice_index <= Len(call.pattern)
    /\ \A k \in DOMAIN call.slices : call.slices[k] = <<k - 1, FALSE>>
    /\ Len(call.clients) <= Len(call.slices) * Len(ue_ips)
    /\ \A k \in DOMAIN call.clients : call.clients[k] = ClientAt(k)
    /\ call.pc \in {"loop", "finally", "returned"} =>
          Len(call.clients) = call.slice_index * Len(ue_ips)
    /\ call.pc = "returned" =>
          /\ call.running = {}
          /\ call.processes = <<>>
          /\ Len(call.slices) = call.slice_index
    /\ call.pattern = <<>> => call.started = 0 /\ call.clients = <<>>

\* A run of three slices that another thread stops during the second
\* slice: four clients were started, the third slice was not, and
\* generate_traffic has returned.
C31_Witness ==
    /\ call.pc = "returned"
    /\ Len(call.pattern) = 3
    /\ call.slice_index = 2
    /\ call.started = 4
    /\ call.stopper = "done"

=============================================================================
